---- MODULE Spec2Model ----
(***************************************************************************)
(* The connection/query stores of hasura-profiler.                         *)
(*                                                                         *)
(*   multi-profile store      src/src/lib/stores/hasura.svelte.ts 1-377    *)
(*   single-connection store  src/unnamed/part_001                         *)
(*   its earlier revision     src/src/lib/stores/hasura.svelte.ts 379-783  *)
(*   the server manager       src/src/lib/components/                      *)
(*                            HasuraServerManager.svelte                   *)
(*                                                                         *)
(* A store is a closure over a few $state cells.  Its synchronous methods  *)
(* are one action each; an asynchronous method is one action up to the     *)
(* await of fetch (the request is then in flight) and one action when the  *)
(* request settles.  The $effect that saves to storage reads only the      *)
(* list and the selection (the url and the secret in the single store)     *)
(* and runs in the microtask that follows the handler, so it is part of    *)
(* the action that wrote those cells.                                      *)
(***************************************************************************)
EXTENDS Integers, Sequences, FiniteSets, TLC

VARIABLES
    variant,            \* which store module was constructed: "multi" or "single"
    serverList,         \* multi: the ordered list of Server records
    selectedServerId,   \* multi: the selection pointer, Undefined when unset
    connectionStatus,   \* multi: HasuraConnectionStatus
    nextId,             \* the ids crypto.randomUUID has handed out so far, plus one
    server,             \* single: the endpoint url
    adminPassword,      \* single: the admin secret
    connection,         \* single: HasuraConnectionStatus
    isConnected,        \* earlier revision: the last probe succeeded
    isLoading,          \* earlier revision: a query is running
    error,              \* earlier revision: the message of the last fault, or NoError
    storage,            \* the item stored at storageKey, NoItem when absent
    inflight,           \* the fetch requests issued and not yet settled, oldest first
    ui_selectedServerId,    \* manager: the id of the record in the form, Undefined for a new one
    editingServer,          \* manager: the form's copy of a record, NoEditing when null
    ui_connectionStatus,    \* manager: its copy of the store's Connection State
    ui_isLoading,           \* manager: the debounced probe is running
    debounceTimeout,        \* manager: the handle of the timer set last, Undefined before
    timers,                 \* the timers set with setTimeout that are still pending
    mounted,                \* manager: the component has not been destroyed
    last                \* the most recent call: its name, id argument and return value

vars == <<variant, serverList, selectedServerId, connectionStatus, nextId,
          server, adminPassword, connection, isConnected, isLoading, error,
          storage, inflight, ui_selectedServerId, editingServer,
          ui_connectionStatus, ui_isLoading, debounceTimeout, timers, mounted, last>>

multiVars == <<serverList, selectedServerId, connectionStatus, nextId>>
singleVars == <<server, adminPassword, connection>>
legacyVars == <<isConnected, isLoading, error>>
componentVars == <<ui_selectedServerId, editingServer, ui_connectionStatus,
                   ui_isLoading, debounceTimeout, timers, mounted>>

(***************************************************************************)
(* Bounds of the model.                                                    *)
(***************************************************************************)
\* ids handed out in the list-management specification
MaxIds == 3
\* requests in flight at once in the list-management specification
ListMaxInFlight == 1
\* requests in flight at once in the specification of queries beside the probe
QueryMaxInFlight == 2
\* ids handed out in the network specification
NetMaxIds == 1
\* requests in flight at once in the network specification
MaxInFlight == 1

(***************************************************************************)
(* Values.                                                                 *)
(***************************************************************************)
\* selectedServerId = undefined; ids are non-empty uuid strings, modelled as 1, 2, ...
Undefined == 0

\* the ids a caller may pass: every id handed out, and one that never was
IdArgs(max) == 1 .. (max + 1)

\* (name, url, password) arguments of addServer and updateServer
ServerInputs ==
    { [name |-> "S1", url |-> "http://h", password |-> "pw"],
      [name |-> "S2", url |-> "http://h2", password |-> "pw2"] }

\* (url, secret) arguments of updateConnection; "" is the cleared value
ConnectionInputs ==
    { [server |-> s, adminPassword |-> p] : s \in {"", "http://h", "http://h2"},
                                            p \in {"", "pw"} }

\* error = undefined, and error = message
NoError == [undefined |-> TRUE]
ErrorMessage(message) == [message |-> message]

Idle == [status |-> "idle"]
Loading == [status |-> "loading"]
Ready == [status |-> "ready"]
ErrorStatus(e) == [status |-> "error", error |-> e]

\* an Error value: its class name and its message
Err(name, message) == [type |-> "error", name |-> name, message |-> message]

\* return values recorded in last
Void == [type |-> "void"]
Pending == [type |-> "pending"]
Bool(b) == [type |-> "boolean", value |-> b]
IdValue(id) == [type |-> "id", value |-> id]

\* a call that awaited nothing, and one that awaited an inner call
Call(op, arg, ret) == [op |-> op, arg |-> arg, ret |-> ret, awaited |-> Void]
\* a call of op that takes no argument, and whether the call before it was op too
CallAgain(op) ==
    [op |-> op, arg |-> Undefined, ret |-> Void, awaited |-> Void,
     again |-> last.op = op]

\* a call that returned after awaiting an inner call; after is what the
\* completion right before this one returned, Void if the step before was none
Awaited(op, awaited, ret) ==
    [op |-> op, arg |-> Undefined, ret |-> ret, awaited |-> awaited,
     after |-> IF "after" \in DOMAIN last THEN last.ret ELSE Void]

\* the construction of a store that read item from a storage last used by a store
\* in state before
Constructed(before, item) ==
    [op |-> "createHasuraStore", arg |-> Undefined, ret |-> Void, awaited |-> Void,
     before |-> before, read |-> item]

(***************************************************************************)
(* The network: requests, responses and the bodies a gateway may send.     *)
(***************************************************************************)
\* the record handed to fetch(url, init)
Request(url, secret, body) ==
    [method |-> "POST", url |-> url, secret |-> secret, body |-> body]

\* a request in flight, with the store method that awaits it
Flight(caller, request) == [caller |-> caller, request |-> request]

\* response.json() throws on this body
NotJson == [json |-> FALSE]
Json(v) == [json |-> TRUE, value |-> v]

RowsBody == [result_type |-> "TuplesOk", result |-> <<<<"id", "name">>, <<"1", "A">>>>]
CommandBody == [result_type |-> "CommandOk", result |-> <<>>]
ErrorBody(message) == [error |-> message, path |-> "$", code |-> "access-denied"]
OtherBody == [message |-> "not found"]
DataBody == [data |-> [x |-> "1"]]
ErrorsBody(errors) == [errors |-> errors]

\* fetch rejects before any response arrives
Rejected == [kind |-> "rejected"]
Http(ok, body) == [kind |-> "response", ok |-> ok, body |-> body]

\* every pairing of a status with a body that takes a different path through executeSQL
SqlResponses ==
    { Rejected,
      Http(TRUE, NotJson), Http(TRUE, Json(RowsBody)), Http(TRUE, Json(CommandBody)),
      Http(TRUE, Json(ErrorBody("invalid secret"))), Http(TRUE, Json(OtherBody)),
      Http(FALSE, NotJson), Http(FALSE, Json(RowsBody)),
      Http(FALSE, Json(ErrorBody("invalid secret"))), Http(FALSE, Json(ErrorBody(""))),
      Http(FALSE, Json(OtherBody)) }

\* the responses the probe meets in the list-management specification
ProbeResponses == { Rejected, Http(TRUE, Json(RowsBody)),
                    Http(FALSE, Json(ErrorBody("invalid secret"))) }

\* executeGraphQL never reads the status
GraphQLResponses ==
    { Rejected,
      Http(TRUE, NotJson), Http(TRUE, Json(DataBody)), Http(TRUE, Json(OtherBody)),
      Http(TRUE, Json(ErrorsBody(<<[message |-> "Field does not exist"]>>))),
      Http(TRUE, Json(ErrorsBody(<<[path |-> "$"]>>))),
      Http(TRUE, Json(ErrorsBody(<<[message |-> ""]>>))),
      Http(TRUE, Json([data |-> [x |-> "1"], errors |-> <<>>])),
      Http(FALSE, Json(DataBody)),
      Http(FALSE, Json(ErrorsBody(<<[message |-> "Field does not exist"]>>))) }

SqlTexts == {"SELECT id, name FROM users"}
GraphQLTexts == {"query { x }"}

\* the options argument of executeSQL: omitted, or with the flag set
NoOptions == [o \in {} |-> FALSE]
SqlOptions == {NoOptions, [allowMutations |-> FALSE], [allowMutations |-> TRUE]}

(***************************************************************************)
(* Result Normalizer and Response Decoder.                                 *)
(***************************************************************************)
\* the way the function given to errorBoundary ends
Throw(name, message) == [end |-> "throw", error |-> Err(name, message)]
Return(value) == [end |-> "return", value |-> value]

\* a value that is not an Error: the resolved payload
Ok(value) == [type |-> "ok", value |-> value]


\* seeded fault: what fn throws leaves errorBoundary as a raised exception
errorBoundary_rethrow(outcome) ==
    IF outcome.end = "throw"
    THEN [type |-> "thrown", error |-> outcome.error]
    ELSE outcome.value

\* errorBoundary(fn): what fn returns, or the Error it threw, as a value
errorBoundary(outcome) ==
    IF outcome.end = "throw" THEN outcome.error ELSE outcome.value

IsError(result) == result.type = "error"

\* an arktype validation: the data, or type.errors with a summary
Valid(data) == [ok |-> TRUE, data |-> data]
TypeErrors(summary) == [ok |-> FALSE, summary |-> summary]


\* seeded fault: the decoder drops the header row
parseHasuraQueryResult_stripsHeader(v) ==
    IF /\ {"result_type", "result"} \subseteq DOMAIN v
       /\ v.result_type = "TuplesOk"
    THEN Valid([v EXCEPT !.result = Tail(v.result)])
    ELSE TypeErrors("result_type must be TuplesOk, result must be an array")

parseHasuraQueryResult(v) ==
    IF /\ {"result_type", "result"} \subseteq DOMAIN v
       /\ v.result_type = "TuplesOk"
    THEN Valid(v)
    ELSE TypeErrors("result_type must be TuplesOk, result must be an array")

parseHasuraQueryError(v) ==
    IF {"error", "path", "code"} \subseteq DOMAIN v
    THEN Valid(v)
    ELSE TypeErrors("error must be a string")


\* seeded fault: mutations are allowed unless the caller forbids them
allowMutationsOf_optOut(options) ==
    IF "allowMutations" \in DOMAIN options THEN options.allowMutations ELSE TRUE

\* const { allowMutations = false } = options
allowMutationsOf(options) ==
    IF "allowMutations" \in DOMAIN options THEN options.allowMutations ELSE FALSE

\* the fetch call of executeSQL(server, sql, options) in the multi-profile module
\* seeded fault: the url is read from the first record of the list at the time of
\* sending rather than from the record handed in
sqlRequest_firstRecord(srv, sql, options) ==
    Request(serverList[1].url \o "/v2/query", srv.password,
            [type |-> "run_sql",
             args |-> [source |-> "default", sql |-> sql, cascade |-> FALSE,
                       read_only |-> ~allowMutationsOf(options)]])

sqlRequest(srv, sql, options) ==
    Request(srv.url \o "/v2/query", srv.password,
            [type |-> "run_sql",
             args |-> [source |-> "default", sql |-> sql, cascade |-> FALSE,
                       read_only |-> ~allowMutationsOf(options)]])

\* the fetch call of executeGraphQL(server, query, variables)
graphqlRequest(srv, query) ==
    Request(srv.url \o "/v1/graphql", srv.password,
            [query |-> query, variables |-> NoOptions])


\* seeded fault: executeSQL decodes the body as a result whatever the status
executeSQL_ignoresStatus(resp) ==
    errorBoundary(
        IF resp.kind = "rejected" THEN Throw("TypeError", "fetch failed")
        ELSE IF ~resp.body.json THEN Throw("SyntaxError", "Unexpected token in JSON")
        ELSE LET result == parseHasuraQueryResult(resp.body.value) IN
             IF ~result.ok
             THEN Return(Err("TypeError", result.summary))
             ELSE Return(Ok(result.data)))

\* executeSQL after the await of fetch: the value its promise resolves to
executeSQL(resp) ==
    errorBoundary(
        IF resp.kind = "rejected" THEN Throw("TypeError", "fetch failed")
        ELSE IF ~resp.body.json THEN Throw("SyntaxError", "Unexpected token in JSON")
        ELSE IF ~resp.ok
        THEN LET errorData == parseHasuraQueryError(resp.body.value) IN
             IF ~errorData.ok
             THEN Return(Err("TypeError", errorData.summary))
             ELSE Return(Err("Error", IF errorData.data.error # ""
                                      THEN errorData.data.error
                                      ELSE "SQL query failed"))
        ELSE LET result == parseHasuraQueryResult(resp.body.value) IN
             IF ~result.ok
             THEN Return(Err("TypeError", result.summary))
             ELSE Return(Ok(result.data)))

\* data.errors?.length
hasErrors(data) == "errors" \in DOMAIN data /\ Len(data.errors) > 0


\* seeded fault: the gateway's message is dropped
firstErrorMessage_generic(data) == "GraphQL query failed"

\* data.errors[0]?.message || 'GraphQL query failed'
firstErrorMessage(data) ==
    IF "message" \in DOMAIN data.errors[1] /\ data.errors[1].message # ""
    THEN data.errors[1].message
    ELSE "GraphQL query failed"

\* executeGraphQL after the await of fetch
executeGraphQL(resp) ==
    errorBoundary(
        IF resp.kind = "rejected" THEN Throw("TypeError", "fetch failed")
        ELSE IF ~resp.body.json THEN Throw("SyntaxError", "Unexpected token in JSON")
        ELSE IF hasErrors(resp.body.value)
        THEN Throw("Error", firstErrorMessage(resp.body.value))
        ELSE Return(Ok(resp.body.value)))

\* inflight without its i-th request
RemoveAt(s, i) == SubSeq(s, 1, i - 1) \o SubSeq(s, i + 1, Len(s))

(***************************************************************************)
(* Persistence Bridge of the multi-profile store.                          *)
(***************************************************************************)
\* storage.getItem(key) === null
NoItem == [null |-> TRUE]

\* storage.getItem(key) throws
Unreadable == [throws |-> TRUE]
\* a storage that holds no item and whose setItem throws
QuotaExceeded == [quota |-> TRUE]

\* a stored selectedServerId that is not a string
NotAString == -1

\* the id of a record written by another store
ForeignId == 9

\* selectedServerId: 'string?'
IsOptionalString(v, key) == key \in DOMAIN v => v[key] # NotAString


\* seeded fault: the snapshot holds the list only
stringifyServerList_listOnly(list, sel) == Json([serverList |-> list])

\* JSON.stringify({ serverList, selectedServerId }): an undefined member is left out
stringifyServerList(list, sel) ==
    IF sel = Undefined
    THEN Json([serverList |-> list])
    ELSE Json([serverList |-> list, selectedServerId |-> sel])

IsServer(s) == {"id", "name", "url", "password"} \subseteq DOMAIN s

\* parseHasuraserverListJSON: string.json.parse, then the shape
parseHasuraserverListJSON(item) ==
    IF ~item.json THEN TypeErrors("must be a JSON string")
    ELSE IF \/ "serverList" \notin DOMAIN item.value
            \/ \E i \in DOMAIN item.value.serverList : ~IsServer(item.value.serverList[i])
         THEN TypeErrors("serverList must be an array of servers")
    ELSE IF ~IsOptionalString(item.value, "selectedServerId")
         THEN TypeErrors("selectedServerId must be a string")
         ELSE Valid([serverList |-> item.value.serverList,
                     selectedServerId |->
                         IF "selectedServerId" \in DOMAIN item.value
                         THEN item.value.selectedServerId
                         ELSE Undefined])

EmptyServerList == [serverList |-> <<>>, selectedServerId |-> Undefined]


\* seeded fault: the load block hydrates the list and forgets the selection
loadServerList_listOnly(item) ==
    IF item \in {NoItem, Unreadable} THEN EmptyServerList
    ELSE LET parsed == parseHasuraserverListJSON(item) IN
         IF parsed.ok
         THEN [serverList |-> parsed.data.serverList, selectedServerId |-> Undefined]
         ELSE EmptyServerList


\* seeded fault: the load block hydrates whatever member the stored value has
loadServerList_partial(item) ==
    IF item \in {NoItem, Unreadable} THEN EmptyServerList
    ELSE IF ~item.json THEN EmptyServerList
    ELSE [serverList |-> IF "serverList" \in DOMAIN item.value
                         THEN item.value.serverList ELSE <<>>,
          selectedServerId |-> IF "selectedServerId" \in DOMAIN item.value
                               THEN item.value.selectedServerId ELSE Undefined]

\* the load block of createHasuraStore: the cells after it; a throw of getItem
\* or of the decode is caught and logged
loadServerList(item) ==
    IF item \in {NoItem, Unreadable, QuotaExceeded} THEN EmptyServerList
    ELSE LET parsed == parseHasuraserverListJSON(item) IN
         IF parsed.ok THEN parsed.data ELSE EmptyServerList

(***************************************************************************)
(* The multi-profile store.                                                *)
(***************************************************************************)
NoServer == [undefined |-> TRUE]

\* serverList.find((s) => s.id === id)
find(list, id) ==
    IF \E i \in DOMAIN list : list[i].id = id
    THEN list[CHOOSE i \in DOMAIN list :
                 /\ list[i].id = id
                 /\ \A j \in DOMAIN list : list[j].id = id => i <= j]
    ELSE NoServer

getSelectedServer ==
    IF selectedServerId = Undefined THEN NoServer
    ELSE find(serverList, selectedServerId)

\* seeded fault: the record is not kept when the save of the list fails
appendServer_unlessSaveFails(list, id, in) ==
    IF storage = QuotaExceeded THEN list
    ELSE Append(list, [id |-> id, name |-> in.name, url |-> in.url, password |-> in.password])

\* [...serverList, newServer]
appendServer(list, id, in) ==
    Append(list, [id |-> id, name |-> in.name, url |-> in.url, password |-> in.password])


\* seeded fault: addServer selects every record it adds
selectionAfterAdd_always(list, sel, id) == id

\* the selection after addServer appended to the list
selectionAfterAdd(list, sel, id) ==
    IF Len(list) = 1 THEN id ELSE sel


\* seeded fault: updateServer forgets the password
mapUpdate_keepPassword(list, id, in) ==
    [i \in DOMAIN list |->
        IF list[i].id = id
        THEN [list[i] EXCEPT !.name = in.name, !.url = in.url]
        ELSE list[i]]

\* serverList.map((server) => server.id === id ? {...server, name, url, password} : server)
mapUpdate(list, id, in) ==
    [i \in DOMAIN list |->
        IF list[i].id = id
        THEN [list[i] EXCEPT !.name = in.name, !.url = in.url, !.password = in.password]
        ELSE list[i]]


\* seeded fault: updateServer never resets the Connection State
statusAfterUpdate_stale(status, sel, id) == status

\* seeded fault: updateServer resets the Connection State whatever the id
statusAfterUpdate_always(status, sel, id) == Idle

\* the Connection State after updateServer(id, ...)
statusAfterUpdate(status, sel, id) ==
    IF id = sel THEN Idle ELSE status

\* serverList.filter((server) => server.id !== id)
filterOut(list, id) ==
    SelectSeq(list, LAMBDA s : s.id # id)


\* seeded fault: removeServer leaves the selection alone
selectionAfterRemove_keep(list, sel, id) == sel

\* seeded fault: removeServer moves the selection to the last record
selectionAfterRemove_last(list, sel, id) ==
    IF id = sel
    THEN IF Len(list) > 0 THEN list[Len(list)].id ELSE Undefined
    ELSE sel

\* seeded fault: removing the selected record always leaves nothing selected
selectionAfterRemove_clears(list, sel, id) ==
    IF id = sel THEN Undefined ELSE sel

\* the selection after removeServer(id) filtered the list
selectionAfterRemove(list, sel, id) ==
    IF id = sel
    THEN IF Len(list) > 0 THEN list[1].id ELSE Undefined
    ELSE sel

\* seeded fault: removeServer resets the Connection State whatever the id
statusAfterRemove_always(status, sel, id) == Idle

\* the Connection State after removeServer(id)
statusAfterRemove(status, sel, id) ==
    IF id = sel THEN Idle ELSE status

\* the selection after selectServer(id)
selectionAfterSelect(list, sel, id) ==
    IF find(list, id) # NoServer THEN id ELSE sel


\* seeded fault: selectServer resets the Connection State without looking the id up
statusAfterSelect_always(list, status, id) == Idle

\* the Connection State after selectServer(id)
statusAfterSelect(list, status, id) ==
    IF find(list, id) # NoServer THEN Idle ELSE status


\* seeded fault: testConnection stores a generic error instead of the probe's
statusAfterProbe_generic(result) ==
    IF IsError(result) THEN ErrorStatus(Err("Error", "Connection failed")) ELSE Ready

\* seeded fault: a failed probe leaves the Connection State as it was set before the await
statusAfterProbe_silent(result) ==
    IF IsError(result) THEN Loading ELSE Ready

\* the Connection State after the probe of testConnection resolved to result
statusAfterProbe(result) ==
    IF IsError(result) THEN ErrorStatus(result) ELSE Ready

\* what testConnection returns after the probe resolved to result
returnAfterProbe(result) ==
    IF IsError(result) THEN Bool(FALSE) ELSE Bool(TRUE)

\* the $effect of the multi-profile store
saveServerList(list, sel) ==
    IF storage = QuotaExceeded THEN storage ELSE stringifyServerList(list, sel)


\* seeded fault: the status of the store that wrote the snapshot is carried over
createHasuraStore_keepsStatus ==
    LET loaded == loadServerList(storage) IN
    /\ serverList' = loaded.serverList
    /\ selectedServerId' = loaded.selectedServerId
    /\ connectionStatus' = connectionStatus
    /\ storage' = saveServerList(loaded.serverList, loaded.selectedServerId)
    /\ inflight' = <<>>
    /\ last' = Constructed(connectionStatus, storage)
    /\ UNCHANGED <<variant, componentVars, legacyVars, nextId, singleVars>>

createHasuraStore ==
    LET loaded == loadServerList(storage) IN
    /\ serverList' = loaded.serverList
    /\ selectedServerId' = loaded.selectedServerId
    /\ connectionStatus' = Idle
    /\ storage' = saveServerList(loaded.serverList, loaded.selectedServerId)
    /\ inflight' = <<>>
    /\ last' = Constructed(connectionStatus, storage)
    /\ UNCHANGED <<variant, componentVars, legacyVars, nextId, singleVars>>

addServer(in) ==
    LET id == nextId
        list == appendServer(serverList, id, in)
        sel == selectionAfterAdd(list, selectedServerId, id)
    IN  /\ serverList' = list
        /\ selectedServerId' = sel
        /\ nextId' = nextId + 1
        /\ storage' = saveServerList(list, sel)
        /\ last' = Call("addServer", Undefined, IdValue(id))
        /\ UNCHANGED <<variant, componentVars, legacyVars, connectionStatus, inflight, singleVars>>

updateServer(id, in) ==
    LET list == mapUpdate(serverList, id, in) IN
    /\ serverList' = list
    /\ connectionStatus' = statusAfterUpdate(connectionStatus, selectedServerId, id)
    /\ storage' = saveServerList(list, selectedServerId)
    /\ last' = Call("updateServer", id, Void)
    /\ UNCHANGED <<variant, componentVars, legacyVars, selectedServerId, nextId, inflight, singleVars>>

removeServer(id) ==
    LET list == filterOut(serverList, id)
        sel == selectionAfterRemove(list, selectedServerId, id)
    IN  /\ serverList' = list
        /\ selectedServerId' = sel
        /\ connectionStatus' = statusAfterRemove(connectionStatus, selectedServerId, id)
        /\ storage' = saveServerList(list, sel)
        /\ last' = Call("removeServer", id, Void)
        /\ UNCHANGED <<variant, componentVars, legacyVars, nextId, inflight, singleVars>>

selectServer(id) ==
    LET sel == selectionAfterSelect(serverList, selectedServerId, id) IN
    /\ selectedServerId' = sel
    /\ connectionStatus' = statusAfterSelect(serverList, connectionStatus, id)
    /\ storage' = IF sel # selectedServerId
                  THEN saveServerList(serverList, sel)
                  ELSE storage
    /\ last' = Call("selectServer", id, Void)
    /\ UNCHANGED <<variant, componentVars, legacyVars, serverList, nextId, inflight, singleVars>>

\* testConnection up to the await of the probe
testConnection ==
    LET srv == getSelectedServer IN
    IF srv = NoServer
    THEN /\ last' = Call("testConnection", Undefined, Bool(FALSE))
         /\ UNCHANGED <<variant, componentVars, legacyVars, multiVars, singleVars, storage, inflight>>
    ELSE /\ connectionStatus' = Loading
         /\ inflight' = Append(inflight,
                Flight("testConnection", sqlRequest(srv, "SELECT 1", NoOptions)))
         /\ last' = Call("testConnection", Undefined, Pending)
         /\ UNCHANGED <<variant, componentVars, legacyVars, serverList, selectedServerId, nextId, singleVars, storage>>


\* seeded fault: a completion writes the Connection State only while it is testing
testConnectionSettles_firstWins(i, resp) ==
    /\ i \in DOMAIN inflight
    /\ inflight[i].caller = "testConnection"
    /\ LET result == executeSQL(resp) IN
       /\ connectionStatus' = IF connectionStatus = Loading
                              THEN statusAfterProbe(result)
                              ELSE connectionStatus
       /\ last' = Awaited("testConnection", result, returnAfterProbe(result))
    /\ inflight' = RemoveAt(inflight, i)
    /\ UNCHANGED <<variant, componentVars, legacyVars, serverList, selectedServerId, nextId, singleVars, storage>>

\* testConnection from the await on: the probe in flight settles with resp
testConnectionSettles(i, resp) ==
    /\ i \in DOMAIN inflight
    /\ inflight[i].caller = "testConnection"
    /\ LET result == executeSQL(resp) IN
       /\ connectionStatus' = statusAfterProbe(result)
       /\ last' = Awaited("testConnection", result, returnAfterProbe(result))
    /\ inflight' = RemoveAt(inflight, i)
    /\ UNCHANGED <<variant, componentVars, legacyVars, serverList, selectedServerId, nextId, singleVars, storage>>

\* the store's executeSQL up to the await of fetch
storeExecuteSQL(sql, options) ==
    LET srv == getSelectedServer IN
    IF srv = NoServer
    THEN /\ last' = Call("executeSQL", Undefined, Err("Error", "No server selected"))
         /\ UNCHANGED <<variant, componentVars, legacyVars, multiVars, singleVars, storage, inflight>>
    ELSE /\ inflight' = Append(inflight, Flight("executeSQL", sqlRequest(srv, sql, options)))
         /\ last' = Call("executeSQL", Undefined, Pending)
         /\ UNCHANGED <<variant, componentVars, legacyVars, multiVars, singleVars, storage>>


\* seeded fault: a failed query marks the connection unhealthy
storeExecuteSQLSettles_writesStatus(i, resp) ==
    /\ i \in DOMAIN inflight
    /\ inflight[i].caller = "executeSQL"
    /\ last' = Call("executeSQL", Undefined, executeSQL(resp))
    /\ connectionStatus' = IF IsError(executeSQL(resp))
                           THEN ErrorStatus(executeSQL(resp))
                           ELSE connectionStatus
    /\ inflight' = RemoveAt(inflight, i)
    /\ UNCHANGED <<variant, componentVars, legacyVars, serverList, selectedServerId, nextId, singleVars, storage>>

\* the store's executeSQL from the await on
\* seeded fault: a request that failed is sent again instead of being reported
storeExecuteSQLSettles_retries(i, resp) ==
    /\ i \in DOMAIN inflight
    /\ inflight[i].caller = "executeSQL"
    /\ IF IsError(executeSQL(resp))
       THEN /\ last' = Call("executeSQL", Undefined, Pending)
            /\ inflight' = Append(RemoveAt(inflight, i), inflight[i])
       ELSE /\ last' = Call("executeSQL", Undefined, executeSQL(resp))
            /\ inflight' = RemoveAt(inflight, i)
    /\ UNCHANGED <<variant, componentVars, legacyVars, multiVars, singleVars, storage>>

storeExecuteSQLSettles(i, resp) ==
    /\ i \in DOMAIN inflight
    /\ inflight[i].caller = "executeSQL"
    /\ last' = Call("executeSQL", Undefined, executeSQL(resp))
    /\ inflight' = RemoveAt(inflight, i)
    /\ UNCHANGED <<variant, componentVars, legacyVars, multiVars, singleVars, storage>>


\* seeded fault: executeGraphQL without the guard on the selection
storeExecuteGraphQL_unguarded(query) ==
    /\ inflight' = Append(inflight,
          Flight("executeGraphQL",
                 graphqlRequest([url |-> "undefined", password |-> "undefined"], query)))
    /\ last' = Call("executeGraphQL", Undefined, Pending)
    /\ UNCHANGED <<variant, componentVars, legacyVars, multiVars, singleVars, storage>>

\* the store's executeGraphQL up to the await of fetch
storeExecuteGraphQL(query) ==
    LET srv == getSelectedServer IN
    IF srv = NoServer
    THEN /\ last' = Call("executeGraphQL", Undefined, Err("Error", "No server selected"))
         /\ UNCHANGED <<variant, componentVars, legacyVars, multiVars, singleVars, storage, inflight>>
    ELSE /\ inflight' = Append(inflight, Flight("executeGraphQL", graphqlRequest(srv, query)))
         /\ last' = Call("executeGraphQL", Undefined, Pending)
         /\ UNCHANGED <<variant, componentVars, legacyVars, multiVars, singleVars, storage>>

\* the store's executeGraphQL from the await on
storeExecuteGraphQLSettles(i, resp) ==
    /\ i \in DOMAIN inflight
    /\ inflight[i].caller = "executeGraphQL"
    /\ last' = Call("executeGraphQL", Undefined, executeGraphQL(resp))
    /\ inflight' = RemoveAt(inflight, i)
    /\ UNCHANGED <<variant, componentVars, legacyVars, multiVars, singleVars, storage>>

(***************************************************************************)
(* The single-connection store.                                            *)
(***************************************************************************)
\* JSON.stringify({ server, adminPassword })
stringifyConnection(s, p) == Json([server |-> s, adminPassword |-> p])

\* parseHasuraConnectionJSON
parseHasuraConnectionJSON(item) ==
    IF ~item.json THEN TypeErrors("must be a JSON string")
    ELSE IF {"server", "adminPassword"} \subseteq DOMAIN item.value
         THEN Valid([server |-> item.value.server,
                     adminPassword |-> item.value.adminPassword])
         ELSE TypeErrors("server must be a string")

EmptyConnection == [server |-> "", adminPassword |-> ""]

\* the load block of the single-connection createHasuraStore
loadConnection(item) ==
    IF item \in {NoItem, Unreadable} THEN EmptyConnection
    ELSE LET parsed == parseHasuraConnectionJSON(item) IN
         IF parsed.ok THEN parsed.data ELSE EmptyConnection

\* the $effect of the single-connection store
saveConnection(s, p) == stringifyConnection(s, p)


\* seeded fault: updateConnection stores and resets without comparing
connectionChanges_always(in) == TRUE

\* nextServer !== server || nextAdminPassword !== adminPassword
connectionChanges(in) ==
    in.server # server \/ in.adminPassword # adminPassword


\* seeded fault: testConnection gives up only when both values are empty
notConfigured_both == server = "" /\ adminPassword = ""

\* !server || !adminPassword
notConfigured == server = "" \/ adminPassword = ""

\* the fetch call of the single-connection executeSQL
singleSqlRequest(sql, options) ==
    Request(server \o "/v2/query", adminPassword,
            [status |-> "run_sql",
             args |-> [source |-> "default", sql |-> sql, cascade |-> FALSE,
                       read_only |-> ~allowMutationsOf(options)]])

\* the fetch call of the single-connection executeGraphQL
singleGraphqlRequest(query) ==
    Request(server \o "/v1/graphql", adminPassword,
            [query |-> query, variables |-> NoOptions])

single_createHasuraStore ==
    LET loaded == loadConnection(storage) IN
    /\ server' = loaded.server
    /\ adminPassword' = loaded.adminPassword
    /\ connection' = Idle
    /\ storage' = saveConnection(loaded.server, loaded.adminPassword)
    /\ inflight' = <<>>
    /\ last' = Constructed(connection, storage)
    /\ UNCHANGED <<variant, componentVars, legacyVars, multiVars>>

\* the cells and the storage after updateConnection(in)
updateConnectionCells(in) ==
    IF connectionChanges(in)
    THEN /\ server' = in.server
         /\ adminPassword' = in.adminPassword
         /\ connection' = Idle
         /\ storage' = saveConnection(in.server, in.adminPassword)
    ELSE UNCHANGED <<singleVars, storage>>

updateConnection(in) ==
    /\ updateConnectionCells(in)
    /\ last' = Call("updateConnection", Undefined, Void)
    /\ UNCHANGED <<variant, componentVars, legacyVars, multiVars, inflight>>

clearConnection ==
    /\ updateConnectionCells(EmptyConnection)
    /\ last' = CallAgain("clearConnection")
    /\ UNCHANGED <<variant, componentVars, legacyVars, multiVars, inflight>>

single_testConnection ==
    IF notConfigured
    THEN /\ last' = Call("testConnection", Undefined, Bool(FALSE))
         /\ UNCHANGED <<variant, componentVars, legacyVars, multiVars, singleVars, storage, inflight>>
    ELSE /\ connection' = Loading
         /\ inflight' = Append(inflight,
                Flight("testConnection", singleSqlRequest("SELECT 1", NoOptions)))
         /\ last' = Call("testConnection", Undefined, Pending)
         /\ UNCHANGED <<variant, componentVars, legacyVars, multiVars, server, adminPassword, storage>>

single_testConnectionSettles(i, resp) ==
    /\ i \in DOMAIN inflight
    /\ inflight[i].caller = "testConnection"
    /\ LET result == executeSQL(resp) IN
       /\ connection' = statusAfterProbe(result)
       /\ last' = Awaited("testConnection", result, returnAfterProbe(result))
    /\ inflight' = RemoveAt(inflight, i)
    /\ UNCHANGED <<variant, componentVars, legacyVars, multiVars, server, adminPassword, storage>>

single_executeSQL(sql, options) ==
    /\ inflight' = Append(inflight, Flight("executeSQL", singleSqlRequest(sql, options)))
    /\ last' = Call("executeSQL", Undefined, Pending)
    /\ UNCHANGED <<variant, componentVars, legacyVars, multiVars, singleVars, storage>>

single_executeGraphQL(query) ==
    /\ inflight' = Append(inflight, Flight("executeGraphQL", singleGraphqlRequest(query)))
    /\ last' = Call("executeGraphQL", Undefined, Pending)
    /\ UNCHANGED <<variant, componentVars, legacyVars, multiVars, singleVars, storage>>

single_executeSQLSettles(i, resp) ==
    /\ i \in DOMAIN inflight
    /\ inflight[i].caller = "executeSQL"
    /\ last' = Call("executeSQL", Undefined, executeSQL(resp))
    /\ inflight' = RemoveAt(inflight, i)
    /\ UNCHANGED <<variant, componentVars, legacyVars, multiVars, singleVars, storage>>

single_executeGraphQLSettles(i, resp) ==
    /\ i \in DOMAIN inflight
    /\ inflight[i].caller = "executeGraphQL"
    /\ last' = Call("executeGraphQL", Undefined, executeGraphQL(resp))
    /\ inflight' = RemoveAt(inflight, i)
    /\ UNCHANGED <<variant, componentVars, legacyVars, multiVars, singleVars, storage>>

(***************************************************************************)
(* The earlier revision of the single-connection store.                    *)
(***************************************************************************)
\* the derived connectionStatus
legacy_connectionStatus ==
    IF isLoading THEN [status |-> "connecting"]
    ELSE IF isConnected THEN [status |-> "connected"]
    ELSE IF error # NoError THEN [status |-> "error"]
    ELSE IF server # "" /\ adminPassword # "" THEN [status |-> "configured"]
    ELSE [status |-> "unconfigured"]

\* the $effect: it writes only if (server || adminPassword), else item stays
legacy_saveConnection(s, p, item) ==
    IF s # "" \/ p # "" THEN stringifyConnection(s, p) ELSE item

\* the fetch call of executeSQL
legacy_sqlRequest(sql, options) ==
    Request(server \o "/v2/query", adminPassword,
            [type |-> "run_sql",
             args |-> [source |-> "default", sql |-> sql, cascade |-> FALSE,
                       read_only |-> ~allowMutationsOf(options)]])

\* the fetch call of executeGraphQL
legacy_graphqlRequest(query) ==
    Request(server \o "/v1/graphql", adminPassword,
            [query |-> query, variables |-> NoOptions])

\* error = result.message if the result is an Error
legacy_errorAfter(result) ==
    IF IsError(result) THEN ErrorMessage(result.message) ELSE error

legacy_createHasuraStore ==
    LET loaded == loadConnection(storage) IN
    /\ server' = loaded.server
    /\ adminPassword' = loaded.adminPassword
    /\ isConnected' = FALSE
    /\ isLoading' = FALSE
    /\ error' = NoError
    /\ storage' = legacy_saveConnection(loaded.server, loaded.adminPassword, storage)
    /\ inflight' = <<>>
    /\ last' = Constructed(legacy_connectionStatus, storage)
    /\ UNCHANGED <<variant, componentVars, multiVars, connection>>

legacy_updateConnection(in) ==
    /\ server' = in.server
    /\ adminPassword' = in.adminPassword
    /\ isConnected' = FALSE
    /\ error' = NoError
    /\ storage' = IF connectionChanges(in)
                  THEN legacy_saveConnection(in.server, in.adminPassword, storage)
                  ELSE storage
    /\ last' = Call("updateConnection", Undefined, Void)
    /\ UNCHANGED <<variant, componentVars, multiVars, connection, isLoading, inflight>>


\* seeded fault: clearing a connection that is already empty writes the empty snapshot
legacy_clearConnection_writesEmpty ==
    /\ server' = ""
    /\ adminPassword' = ""
    /\ isConnected' = FALSE
    /\ error' = NoError
    /\ storage' = IF server = "" /\ adminPassword = ""
                  THEN stringifyConnection("", "")
                  ELSE NoItem
    /\ last' = CallAgain("clearConnection")
    /\ UNCHANGED <<variant, componentVars, multiVars, connection, isLoading, inflight>>

\* clearConnection, and the $effect after it, which finds both values empty
legacy_clearConnection ==
    /\ server' = ""
    /\ adminPassword' = ""
    /\ isConnected' = FALSE
    /\ error' = NoError
    /\ storage' = NoItem
    /\ last' = CallAgain("clearConnection")
    /\ UNCHANGED <<variant, componentVars, multiVars, connection, isLoading, inflight>>

\* testConnection up to the await of fetch inside executeSQL
legacy_testConnection ==
    IF notConfigured
    THEN /\ error' = ErrorMessage("Server URL and admin password are required")
         /\ last' = Call("testConnection", Undefined, Bool(FALSE))
         /\ UNCHANGED <<variant, componentVars, multiVars, singleVars, isConnected, isLoading,
                        storage, inflight>>
    ELSE /\ isLoading' = TRUE
         /\ error' = NoError
         /\ inflight' = Append(inflight,
                Flight("testConnection", legacy_sqlRequest("SELECT 1", NoOptions)))
         /\ last' = Call("testConnection", Undefined, Pending)
         /\ UNCHANGED <<variant, componentVars, multiVars, singleVars, isConnected, storage>>

\* the probe settles: executeSQL finishes, then testConnection
legacy_testConnectionSettles(i, resp) ==
    /\ i \in DOMAIN inflight
    /\ inflight[i].caller = "testConnection"
    /\ LET result == executeSQL(resp) IN
       /\ isLoading' = FALSE
       /\ error' = legacy_errorAfter(result)
       /\ isConnected' = ~IsError(result)
       /\ last' = Awaited("testConnection", result, Bool(~IsError(result)))
    /\ inflight' = RemoveAt(inflight, i)
    /\ UNCHANGED <<variant, componentVars, multiVars, singleVars, storage>>

legacy_executeSQL(sql, options) ==
    /\ isLoading' = TRUE
    /\ error' = NoError
    /\ inflight' = Append(inflight, Flight("executeSQL", legacy_sqlRequest(sql, options)))
    /\ last' = Call("executeSQL", Undefined, Pending)
    /\ UNCHANGED <<variant, componentVars, multiVars, singleVars, isConnected, storage>>

legacy_executeSQLSettles(i, resp) ==
    /\ i \in DOMAIN inflight
    /\ inflight[i].caller = "executeSQL"
    /\ isLoading' = FALSE
    /\ error' = legacy_errorAfter(executeSQL(resp))
    /\ last' = Call("executeSQL", Undefined, executeSQL(resp))
    /\ inflight' = RemoveAt(inflight, i)
    /\ UNCHANGED <<variant, componentVars, multiVars, singleVars, isConnected, storage>>

legacy_executeGraphQL(query) ==
    /\ isLoading' = TRUE
    /\ error' = NoError
    /\ inflight' = Append(inflight, Flight("executeGraphQL", legacy_graphqlRequest(query)))
    /\ last' = Call("executeGraphQL", Undefined, Pending)
    /\ UNCHANGED <<variant, componentVars, multiVars, singleVars, isConnected, storage>>

legacy_executeGraphQLSettles(i, resp) ==
    /\ i \in DOMAIN inflight
    /\ inflight[i].caller = "executeGraphQL"
    /\ isLoading' = FALSE
    /\ error' = legacy_errorAfter(executeGraphQL(resp))
    /\ last' = Call("executeGraphQL", Undefined, executeGraphQL(resp))
    /\ inflight' = RemoveAt(inflight, i)
    /\ UNCHANGED <<variant, componentVars, multiVars, singleVars, isConnected, storage>>

(***************************************************************************)
(* Specifications.                                                         *)
(***************************************************************************)
\* a multi-profile store constructed over a storage that holds no item
\* editingServer = null
NoEditing == [null |-> TRUE]

\* the $state cells of the server manager as its script declares them
InitComponent ==
    /\ ui_selectedServerId = Undefined
    /\ editingServer = NoEditing
    /\ ui_connectionStatus = [status |-> "idle"]
    /\ ui_isLoading = FALSE
    /\ debounceTimeout = Undefined
    /\ timers = {}
    /\ mounted = TRUE

InitMulti ==
    /\ InitComponent
    /\ variant = "multi"
    /\ serverList = loadServerList(NoItem).serverList
    /\ selectedServerId = loadServerList(NoItem).selectedServerId
    /\ connectionStatus = Idle
    /\ nextId = 1
    /\ storage = stringifyServerList(loadServerList(NoItem).serverList,
                                loadServerList(NoItem).selectedServerId)
    /\ inflight = <<>>
    /\ last = Call("createHasuraStore", Undefined, Void)
    /\ server = "" /\ adminPassword = "" /\ connection = Idle
    /\ isConnected = FALSE /\ isLoading = FALSE /\ error = NoError

\* a single-connection store constructed over a storage that holds no item
InitSingle ==
    /\ InitComponent
    /\ variant = "single"
    /\ server = loadConnection(NoItem).server
    /\ adminPassword = loadConnection(NoItem).adminPassword
    /\ connection = Idle
    /\ storage = saveConnection(loadConnection(NoItem).server,
                                loadConnection(NoItem).adminPassword)
    /\ inflight = <<>>
    /\ last = Call("createHasuraStore", Undefined, Void)
    /\ serverList = <<>> /\ selectedServerId = Undefined
    /\ connectionStatus = Idle /\ nextId = 1
    /\ isConnected = FALSE /\ isLoading = FALSE /\ error = NoError

\* List management of the multi-profile store, with the probe as the only request.
NextList ==
    \/ \E in \in ServerInputs : nextId <= MaxIds /\ addServer(in)
    \/ \E id \in IdArgs(MaxIds), in \in ServerInputs : updateServer(id, in)
    \/ \E id \in IdArgs(MaxIds) : removeServer(id)
    \/ \E id \in IdArgs(MaxIds) : selectServer(id)
    \/ (getSelectedServer = NoServer \/ Len(inflight) < ListMaxInFlight) /\ testConnection
    \/ \E i \in DOMAIN inflight, resp \in ProbeResponses : testConnectionSettles(i, resp)
    \/ createHasuraStore

SpecList == InitMulti /\ [][NextList]_vars

\* Both stores with every request and every response.
IsMulti == variant = "multi"
IsSingle == variant = "single"

\* a call that issues a request waits for room in the model's network
Room == Len(inflight) < MaxInFlight

NextMulti ==
    \/ \E in \in ServerInputs : IsMulti /\ nextId <= NetMaxIds /\ addServer(in)
    \/ \E id \in IdArgs(NetMaxIds), in \in ServerInputs : IsMulti /\ updateServer(id, in)
    \/ \E id \in IdArgs(NetMaxIds) : IsMulti /\ removeServer(id)
    \/ \E id \in IdArgs(NetMaxIds) : IsMulti /\ selectServer(id)
    \/ IsMulti /\ (getSelectedServer = NoServer \/ Room) /\ testConnection
    \/ \E i \in DOMAIN inflight, resp \in SqlResponses :
          IsMulti /\ testConnectionSettles(i, resp)
    \/ \E sql \in SqlTexts, options \in SqlOptions :
          IsMulti /\ (getSelectedServer = NoServer \/ Room) /\ storeExecuteSQL(sql, options)
    \/ \E i \in DOMAIN inflight, resp \in SqlResponses :
          IsMulti /\ storeExecuteSQLSettles(i, resp)
    \/ \E query \in GraphQLTexts :
          IsMulti /\ (getSelectedServer = NoServer \/ Room) /\ storeExecuteGraphQL(query)
    \/ \E i \in DOMAIN inflight, resp \in GraphQLResponses :
          IsMulti /\ storeExecuteGraphQLSettles(i, resp)
    \/ IsMulti /\ createHasuraStore

NextSingle ==
    \/ \E in \in ConnectionInputs : IsSingle /\ updateConnection(in)
    \/ IsSingle /\ clearConnection
    \/ IsSingle /\ (notConfigured \/ Room) /\ single_testConnection
    \/ \E i \in DOMAIN inflight, resp \in SqlResponses :
          IsSingle /\ single_testConnectionSettles(i, resp)
    \/ \E sql \in SqlTexts, options \in SqlOptions :
          IsSingle /\ Room /\ single_executeSQL(sql, options)
    \/ \E i \in DOMAIN inflight, resp \in SqlResponses :
          IsSingle /\ single_executeSQLSettles(i, resp)
    \/ \E query \in GraphQLTexts : IsSingle /\ Room /\ single_executeGraphQL(query)
    \/ \E i \in DOMAIN inflight, resp \in GraphQLResponses :
          IsSingle /\ single_executeGraphQLSettles(i, resp)
    \/ IsSingle /\ single_createHasuraStore

Init == InitMulti \/ InitSingle

Next == NextMulti \/ NextSingle

Spec == Init /\ [][Next]_vars

\* Queries issued while the probe is in flight, in both stores.
QueryRoom == Len(inflight) < QueryMaxInFlight

\* the responses a GraphQL query meets beside the probe
QueryResponses ==
    { Rejected, Http(TRUE, Json(DataBody)),
      Http(TRUE, Json(ErrorsBody(<<[message |-> "Field does not exist"]>>))) }

NextQuery ==
    \/ \E in \in ServerInputs : IsMulti /\ nextId <= NetMaxIds /\ addServer(in)
    \/ \E id \in IdArgs(NetMaxIds) : IsMulti /\ removeServer(id)
    \/ IsMulti /\ (getSelectedServer = NoServer \/ QueryRoom) /\ testConnection
    \/ \E i \in DOMAIN inflight, resp \in ProbeResponses :
          IsMulti /\ testConnectionSettles(i, resp)
    \/ \E sql \in SqlTexts :
          IsMulti /\ (getSelectedServer = NoServer \/ QueryRoom)
                  /\ storeExecuteSQL(sql, NoOptions)
    \/ \E i \in DOMAIN inflight, resp \in ProbeResponses :
          IsMulti /\ storeExecuteSQLSettles(i, resp)
    \/ \E query \in GraphQLTexts :
          IsMulti /\ (getSelectedServer = NoServer \/ QueryRoom)
                  /\ storeExecuteGraphQL(query)
    \/ \E i \in DOMAIN inflight, resp \in QueryResponses :
          IsMulti /\ storeExecuteGraphQLSettles(i, resp)
    \/ \E in \in ConnectionInputs : IsSingle /\ updateConnection(in)
    \/ IsSingle /\ (notConfigured \/ QueryRoom) /\ single_testConnection
    \/ \E i \in DOMAIN inflight, resp \in ProbeResponses :
          IsSingle /\ single_testConnectionSettles(i, resp)
    \/ \E sql \in SqlTexts : IsSingle /\ QueryRoom /\ single_executeSQL(sql, NoOptions)
    \/ \E i \in DOMAIN inflight, resp \in ProbeResponses :
          IsSingle /\ single_executeSQLSettles(i, resp)
    \/ \E query \in GraphQLTexts : IsSingle /\ QueryRoom /\ single_executeGraphQL(query)
    \/ \E i \in DOMAIN inflight, resp \in QueryResponses :
          IsSingle /\ single_executeGraphQLSettles(i, resp)

SpecQuery == Init /\ [][NextQuery]_vars

\* Construction over a storage that something else wrote to, or that fails.
ForeignServer == [id |-> ForeignId, name |-> "S1", url |-> "http://h", password |-> "pw"]

\* stored values the multi-profile store cannot hydrate from
CorruptServerLists ==
    { Unreadable, NotJson,
      Json([servers |-> <<>>]),
      Json([selectedServerId |-> ForeignId]),
      Json([serverList |-> <<[id |-> ForeignId, name |-> "S1"]>>,
            selectedServerId |-> ForeignId]),
      Json([serverList |-> <<ForeignServer>>, selectedServerId |-> NotAString]) }

ServerListItems ==
    CorruptServerLists \cup
    { Json([serverList |-> <<ForeignServer>>, selectedServerId |-> ForeignId]),
      Json([serverList |-> <<ForeignServer>>]) }

\* stored values the single-connection store cannot hydrate from
CorruptConnections ==
    { Unreadable, NotJson,
      Json([server |-> "http://h"]),
      Json([adminPassword |-> "pw"]) }

ConnectionItems ==
    CorruptConnections \cup { Json([server |-> "http://h2", adminPassword |-> "pw"]) }

\* the storage comes to hold item, or to fail, by something other than the store
storageReplaced(item) ==
    /\ storage' = item
    /\ last' = Call("setItem", Undefined, Void)
    /\ UNCHANGED <<variant, componentVars, legacyVars, multiVars, singleVars, inflight>>

NextHydrate ==
    \/ \E in \in ServerInputs : IsMulti /\ nextId <= NetMaxIds /\ addServer(in)
    \/ \E id \in IdArgs(NetMaxIds) \cup {ForeignId} : IsMulti /\ removeServer(id)
    \/ IsMulti /\ (getSelectedServer = NoServer \/ Room) /\ testConnection
    \/ \E i \in DOMAIN inflight, resp \in ProbeResponses :
          IsMulti /\ testConnectionSettles(i, resp)
    \/ \E item \in ServerListItems : IsMulti /\ storageReplaced(item)
    \/ IsMulti /\ createHasuraStore
    \/ \E in \in ConnectionInputs : IsSingle /\ updateConnection(in)
    \/ IsSingle /\ (notConfigured \/ Room) /\ single_testConnection
    \/ \E i \in DOMAIN inflight, resp \in ProbeResponses :
          IsSingle /\ single_testConnectionSettles(i, resp)
    \/ \E item \in ConnectionItems : IsSingle /\ storageReplaced(item)
    \/ IsSingle /\ single_createHasuraStore

SpecHydrate == Init /\ [][NextHydrate]_vars

\* The single-connection store in both revisions.
(***************************************************************************)
(* The server manager component, HasuraServerManager.svelte.  It owns a    *)
(* multi-profile store constructed without a storage capability, so        *)
(* nothing is saved, and a form with a copy of one record.  Each DOM event *)
(* handler is one action; the timer callback is one action up to the await *)
(* inside the store's testConnection and one when the probe settles.       *)
(***************************************************************************)
\* records added through the form
UiMaxIds == 2
\* probes in flight at once
UiMaxInFlight == 1

\* what the three inputs of the form can hold after an input event
UiNames == {"S1"}
UiUrls == {"", "http://h"}
UiPasswords == {"", "pw"}
FormInputs ==
    ({"name"} \X UiNames) \cup ({"url"} \X UiUrls) \cup ({"password"} \X UiPasswords)

\* bind:value writes the input's value into the field of editingServer
bindValue(ed, in) == [ed EXCEPT ![in[1]] = in[2]]

\* the cells that saveServer reads and writes
ManagerState ==
    [serverList |-> serverList, selectedServerId |-> selectedServerId,
     connectionStatus |-> connectionStatus, nextId |-> nextId,
     ui_selectedServerId |-> ui_selectedServerId]

\* seeded fault: saveServer does not select the record it has just added
saveServer_noSelect(S, ed) ==
    IF ed = NoEditing THEN S
    ELSE IF S.ui_selectedServerId # Undefined
    THEN [S EXCEPT
            !.serverList = mapUpdate(S.serverList, S.ui_selectedServerId, ed),
            !.connectionStatus = statusAfterUpdate(S.connectionStatus, S.selectedServerId,
                                                   S.ui_selectedServerId)]
    ELSE LET id == S.nextId
             list == appendServer(S.serverList, id,
                        [name |-> IF ed.name = "" THEN "New Server" ELSE ed.name,
                         url |-> ed.url, password |-> ed.password])
         IN  [serverList |-> list,
              selectedServerId |-> selectionAfterAdd(list, S.selectedServerId, id),
              connectionStatus |-> S.connectionStatus,
              nextId |-> id + 1,
              ui_selectedServerId |-> id]

\* saveServer: updateServer of the record in the form, or addServer of a new
\* one followed by selectServer of it
saveServer(S, ed) ==
    IF ed = NoEditing THEN S
    ELSE IF S.ui_selectedServerId # Undefined
    THEN [S EXCEPT
            !.serverList = mapUpdate(S.serverList, S.ui_selectedServerId, ed),
            !.connectionStatus = statusAfterUpdate(S.connectionStatus, S.selectedServerId,
                                                   S.ui_selectedServerId)]
    ELSE LET id == S.nextId
             list == appendServer(S.serverList, id,
                        [name |-> IF ed.name = "" THEN "New Server" ELSE ed.name,
                         url |-> ed.url, password |-> ed.password])
             sel == selectionAfterAdd(list, S.selectedServerId, id)
         IN  [serverList |-> list,
              selectedServerId |-> selectionAfterSelect(list, sel, id),
              connectionStatus |-> statusAfterSelect(list, S.connectionStatus, id),
              nextId |-> id + 1,
              ui_selectedServerId |-> id]

\* seeded fault: clearTimeout is not called
clearTimeout_never(pending, handle) == pending

\* clearTimeout(handle): the timer with that handle, if it is pending, never fires
clearTimeout(pending, handle) == { t \in pending : t.handle # handle }

\* the handle setTimeout returns: one that no pending timer has and that
\* differs from the one the component still holds
setTimeoutHandle ==
    CHOOSE h \in 1 .. (Cardinality(timers) + 2) :
        h # debounceTimeout /\ \A t \in timers : t.handle # h

\* createNewServer: the "Add Server" button
createNewServer ==
    /\ mounted
    /\ editingServer' = [id |-> Undefined, name |-> "", url |-> "", password |-> ""]
    /\ ui_selectedServerId' = Undefined
    /\ last' = Call("createNewServer", Undefined, Void)
    /\ UNCHANGED <<variant, legacyVars, multiVars, singleVars, storage, inflight,
                   ui_connectionStatus, ui_isLoading, debounceTimeout, timers, mounted>>

\* selectServer of the component: a click on the k-th entry of the list
ui_selectServer(k) ==
    /\ mounted
    /\ k \in DOMAIN serverList
    /\ ui_selectedServerId' = serverList[k].id
    /\ editingServer' = serverList[k]
    /\ ui_connectionStatus' = connectionStatus
    /\ last' = Call("manager.selectServer", serverList[k].id, Void)
    /\ UNCHANGED <<variant, legacyVars, multiVars, singleVars, storage, inflight,
                   ui_isLoading, debounceTimeout, timers, mounted>>

\* deleteServer: the delete button of the k-th entry, confirmed
deleteServer(k) ==
    /\ mounted
    /\ k \in DOMAIN serverList
    /\ LET id == serverList[k].id
           list == filterOut(serverList, id)
       IN  /\ serverList' = list
           /\ selectedServerId' = selectionAfterRemove(list, selectedServerId, id)
           /\ connectionStatus' = statusAfterRemove(connectionStatus, selectedServerId, id)
           /\ ui_selectedServerId' =
                 IF id = ui_selectedServerId
                 THEN IF list # <<>> THEN list[1].id ELSE Undefined
                 ELSE ui_selectedServerId
           /\ editingServer' =
                 IF id = ui_selectedServerId
                 THEN IF list # <<>> THEN list[1] ELSE NoEditing
                 ELSE editingServer
           /\ last' = Call("deleteServer", id, Void)
    /\ UNCHANGED <<variant, legacyVars, nextId, singleVars, storage, inflight,
                   ui_connectionStatus, ui_isLoading, debounceTimeout, timers, mounted>>

\* handleInputChange: an input event of the form, after bind:value wrote the
\* field.  saveServer, then the component's testConnection: cancel the timer,
\* and with a url and a secret saveServer again and set the timer
handleInputChange(in) ==
    /\ mounted
    /\ editingServer # NoEditing
    /\ LET ed == bindValue(editingServer, in)
           complete == ed.url # "" /\ ed.password # ""
           saved == saveServer(ManagerState, ed)
           S == IF complete THEN saveServer(saved, ed) ELSE saved
           kept == IF debounceTimeout # Undefined
                   THEN clearTimeout(timers, debounceTimeout)
                   ELSE timers
       IN  /\ editingServer' = ed
           /\ serverList' = S.serverList
           /\ selectedServerId' = S.selectedServerId
           /\ connectionStatus' = S.connectionStatus
           /\ nextId' = S.nextId
           /\ ui_selectedServerId' = S.ui_selectedServerId
           /\ ui_connectionStatus' = IF complete THEN ui_connectionStatus ELSE Idle
           /\ timers' = IF complete
                        THEN kept \cup {[handle |-> setTimeoutHandle,
                                         edited |-> S.ui_selectedServerId]}
                        ELSE kept
           /\ debounceTimeout' = IF complete THEN setTimeoutHandle ELSE debounceTimeout
           /\ last' = [op |-> "handleInputChange", arg |-> S.ui_selectedServerId,
                       ret |-> Void, awaited |-> Void,
                       scheduled |-> complete, cancelled |-> kept # timers]
    /\ UNCHANGED <<variant, legacyVars, singleVars, storage, inflight, ui_isLoading, mounted>>

\* the timer callback up to the await inside the store's testConnection; with
\* no selected record the call returns false and the callback runs to its end
debounceFires(t) ==
    /\ t \in timers
    /\ timers' = timers \ {t}
    /\ LET srv == getSelectedServer IN
       IF srv = NoServer
       THEN /\ ui_connectionStatus' = connectionStatus
            /\ ui_isLoading' = FALSE
            /\ last' = [op |-> "debounceTimeout", arg |-> t.edited, ret |-> Bool(FALSE),
                        awaited |-> Void, probed |-> Undefined]
            /\ UNCHANGED <<connectionStatus, inflight>>
       ELSE /\ ui_isLoading' = TRUE
            /\ connectionStatus' = Loading
            /\ inflight' = Append(inflight,
                   Flight("testConnection", sqlRequest(srv, "SELECT 1", NoOptions)))
            /\ last' = [op |-> "debounceTimeout", arg |-> t.edited, ret |-> Pending,
                        awaited |-> Void, probed |-> srv.id]
            /\ UNCHANGED ui_connectionStatus
    /\ UNCHANGED <<variant, legacyVars, serverList, selectedServerId, nextId, singleVars,
                   storage, ui_selectedServerId, editingServer, debounceTimeout, mounted>>

\* the timer callback from the await on: the probe settles with resp, the store
\* writes its Connection State and the component copies it
debounceSettles(i, resp) ==
    /\ i \in DOMAIN inflight
    /\ inflight[i].caller = "testConnection"
    /\ LET result == executeSQL(resp) IN
       /\ connectionStatus' = statusAfterProbe(result)
       /\ ui_connectionStatus' = statusAfterProbe(result)
       /\ last' = Awaited("debounceTimeout", result, returnAfterProbe(result))
    /\ ui_isLoading' = FALSE
    /\ inflight' = RemoveAt(inflight, i)
    /\ UNCHANGED <<variant, legacyVars, serverList, selectedServerId, nextId, singleVars,
                   storage, ui_selectedServerId, editingServer, debounceTimeout, timers,
                   mounted>>

\* seeded fault: the component is destroyed without cancelling its timer
onDestroy_keepsTimer ==
    /\ mounted
    /\ mounted' = FALSE
    /\ last' = Call("onDestroy", Undefined, Void)
    /\ UNCHANGED <<variant, legacyVars, multiVars, singleVars, storage, inflight,
                   ui_selectedServerId, editingServer, ui_connectionStatus, ui_isLoading,
                   debounceTimeout, timers>>

\* onDestroy: the pending timer is cancelled
onDestroy ==
    /\ mounted
    /\ mounted' = FALSE
    /\ timers' = IF debounceTimeout # Undefined
                 THEN clearTimeout(timers, debounceTimeout)
                 ELSE timers
    /\ last' = Call("onDestroy", Undefined, Void)
    /\ UNCHANGED <<variant, legacyVars, multiVars, singleVars, storage, inflight,
                   ui_selectedServerId, editingServer, ui_connectionStatus, ui_isLoading,
                   debounceTimeout>>

\* the store of the component is empty when onMount runs, so onMount finds no
\* record to load and the component starts as its script declares it
NextComponent ==
    \/ createNewServer
    \/ \E k \in DOMAIN serverList : ui_selectServer(k)
    \/ \E k \in DOMAIN serverList : deleteServer(k)
    \/ \E in \in FormInputs :
          (ui_selectedServerId # Undefined \/ nextId <= UiMaxIds) /\ handleInputChange(in)
    \/ \E t \in timers :
          (getSelectedServer = NoServer \/ Len(inflight) < UiMaxInFlight) /\ debounceFires(t)
    \/ \E i \in DOMAIN inflight, resp \in ProbeResponses : debounceSettles(i, resp)
    \/ onDestroy

SpecComponent == InitMulti /\ [][NextComponent]_vars

\* the component with a form for one record: edits, the timer and teardown
DebounceMaxIds == 1
DebounceMaxInFlight == 1

NextDebounce ==
    \/ createNewServer
    \/ \E k \in DOMAIN serverList : ui_selectServer(k)
    \/ \E k \in DOMAIN serverList : deleteServer(k)
    \/ \E in \in FormInputs :
          (ui_selectedServerId # Undefined \/ nextId <= DebounceMaxIds)
             /\ handleInputChange(in)
    \/ \E t \in timers :
          (getSelectedServer = NoServer \/ Len(inflight) < DebounceMaxInFlight)
             /\ debounceFires(t)
    \/ \E i \in DOMAIN inflight, resp \in ProbeResponses : debounceSettles(i, resp)
    \/ onDestroy

SpecDebounce == InitMulti /\ [][NextDebounce]_vars

\* the multi-profile store with overlapping probes, each of which completes
LiveMaxInFlight == 2

NextLive ==
    \/ \E in \in ServerInputs : nextId <= NetMaxIds /\ addServer(in)
    \/ \E id \in IdArgs(NetMaxIds), in \in ServerInputs : updateServer(id, in)
    \/ \E id \in IdArgs(NetMaxIds) : removeServer(id)
    \/ \E id \in IdArgs(NetMaxIds) : selectServer(id)
    \/ (getSelectedServer = NoServer \/ Len(inflight) < LiveMaxInFlight) /\ testConnection
    \/ \E i \in DOMAIN inflight, resp \in ProbeResponses : testConnectionSettles(i, resp)

\* a request that is in flight completes: fetch settles its promise, and the
\* continuation of the call that awaits it then runs
RequestsComplete ==
    \A i \in 1..LiveMaxInFlight :
        WF_vars(\E resp \in ProbeResponses : testConnectionSettles(i, resp))

SpecLive == InitMulti /\ [][NextLive]_vars /\ RequestsComplete

\* the multi-profile store with two records, so that the selection can move
\* between them while a request is in flight
BindMaxIds == 2
BindMaxInFlight == 1

BindRoom == Len(inflight) < BindMaxInFlight

NextBinding ==
    \/ \E in \in ServerInputs : nextId <= BindMaxIds /\ addServer(in)
    \/ \E id \in IdArgs(BindMaxIds), in \in ServerInputs : updateServer(id, in)
    \/ \E id \in IdArgs(BindMaxIds) : removeServer(id)
    \/ \E id \in IdArgs(BindMaxIds) : selectServer(id)
    \/ (getSelectedServer = NoServer \/ BindRoom) /\ testConnection
    \/ \E i \in DOMAIN inflight, resp \in ProbeResponses : testConnectionSettles(i, resp)
    \/ \E sql \in SqlTexts :
          (getSelectedServer = NoServer \/ BindRoom) /\ storeExecuteSQL(sql, NoOptions)
    \/ \E i \in DOMAIN inflight, resp \in ProbeResponses : storeExecuteSQLSettles(i, resp)
    \/ \E query \in GraphQLTexts :
          (getSelectedServer = NoServer \/ BindRoom) /\ storeExecuteGraphQL(query)
    \/ \E i \in DOMAIN inflight, resp \in QueryResponses : storeExecuteGraphQLSettles(i, resp)

SpecBinding == InitMulti /\ [][NextBinding]_vars

IsLegacy == variant = "legacy"

\* an earlier-revision store constructed over a storage that holds no item
InitLegacy ==
    /\ InitComponent
    /\ variant = "legacy"
    /\ server = loadConnection(NoItem).server
    /\ adminPassword = loadConnection(NoItem).adminPassword
    /\ isConnected = FALSE /\ isLoading = FALSE /\ error = NoError
    /\ storage = legacy_saveConnection(loadConnection(NoItem).server,
                                       loadConnection(NoItem).adminPassword, NoItem)
    /\ inflight = <<>>
    /\ last = Call("createHasuraStore", Undefined, Void)
    /\ serverList = <<>> /\ selectedServerId = Undefined
    /\ connectionStatus = Idle /\ nextId = 1 /\ connection = Idle

NextLegacy ==
    \/ \E in \in ConnectionInputs : IsLegacy /\ legacy_updateConnection(in)
    \/ IsLegacy /\ legacy_clearConnection
    \/ IsLegacy /\ (notConfigured \/ Room) /\ legacy_testConnection
    \/ \E i \in DOMAIN inflight, resp \in ProbeResponses :
          IsLegacy /\ legacy_testConnectionSettles(i, resp)
    \/ \E sql \in SqlTexts, options \in SqlOptions :
          IsLegacy /\ Room /\ legacy_executeSQL(sql, options)
    \/ \E i \in DOMAIN inflight, resp \in ProbeResponses :
          IsLegacy /\ legacy_executeSQLSettles(i, resp)
    \/ \E query \in GraphQLTexts : IsLegacy /\ Room /\ legacy_executeGraphQL(query)
    \/ \E i \in DOMAIN inflight, resp \in QueryResponses :
          IsLegacy /\ legacy_executeGraphQLSettles(i, resp)
    \/ IsLegacy /\ legacy_createHasuraStore

\* the earlier revision with queries that overlap
RaceMaxInFlight == 2

RaceRoom == Len(inflight) < RaceMaxInFlight

NextRace ==
    \/ \E in \in ConnectionInputs : legacy_updateConnection(in)
    \/ \E sql \in SqlTexts : RaceRoom /\ legacy_executeSQL(sql, NoOptions)
    \/ \E i \in DOMAIN inflight, resp \in ProbeResponses : legacy_executeSQLSettles(i, resp)
    \/ \E query \in GraphQLTexts : RaceRoom /\ legacy_executeGraphQL(query)
    \/ \E i \in DOMAIN inflight, resp \in QueryResponses :
          legacy_executeGraphQLSettles(i, resp)

SpecRace == InitLegacy /\ [][NextRace]_vars

\* the multi-profile store over a storage whose setItem starts to throw
QuotaMaxIds == 2

\* the storage capability runs out of quota: from now on setItem throws
setItemThrows ==
    /\ IsMulti
    /\ storage' = QuotaExceeded
    /\ last' = Call("setItem", Undefined, Void)
    /\ UNCHANGED <<variant, componentVars, legacyVars, multiVars, singleVars, inflight>>

NextQuota ==
    \/ \E in \in ServerInputs : nextId <= QuotaMaxIds /\ addServer(in)
    \/ \E id \in IdArgs(QuotaMaxIds), in \in ServerInputs : updateServer(id, in)
    \/ \E id \in IdArgs(QuotaMaxIds) : removeServer(id)
    \/ \E id \in IdArgs(QuotaMaxIds) : selectServer(id)
    \/ (getSelectedServer = NoServer \/ Len(inflight) < ListMaxInFlight) /\ testConnection
    \/ \E i \in DOMAIN inflight, resp \in ProbeResponses : testConnectionSettles(i, resp)
    \/ setItemThrows

SpecQuota == InitMulti /\ [][NextQuota]_vars

InitBothSingle == InitSingle \/ InitLegacy

NextBothSingle == NextSingle \/ NextLegacy

SpecSingle == InitBothSingle /\ [][NextBothSingle]_vars

\* The three stores with every request and every response.
InitStores == InitMulti \/ InitSingle \/ InitLegacy

NextStores == NextMulti \/ NextSingle \/ NextLegacy

SpecStores == InitStores /\ [][NextStores]_vars

(***************************************************************************)
(* Properties.                                                             *)
(***************************************************************************)
Ids(list) == { list[i].id : i \in DOMAIN list }

\* the list without its k-th record
Without(list, k) == SubSeq(list, 1, k - 1) \o SubSeq(list, k + 1, Len(list))

\* the Connection State of the store that was constructed
StatusOf == IF IsMulti THEN connectionStatus ELSE connection

\* a step in which op was called: it settles no request
Called(op) == last'.op = op /\ Len(inflight') >= Len(inflight)

\* a step in which a request of op settled
Settled(op) == last'.op = op /\ Len(inflight') < Len(inflight)

\* C1: the selected id is unset or the id of a record in the list, in every state
\* reached from an empty or a hydrated store by add/update/remove/select.
C1_SelectionInList ==
    selectedServerId = Undefined \/ selectedServerId \in Ids(serverList)

\* a store hydrated from its own snapshot, with a selection among several records
C1_Witness ==
    /\ last.op = "createHasuraStore"
    /\ Len(serverList) >= 2
    /\ selectedServerId = serverList[2].id

\* C2: removeServer(id) of the selected record removes that record, selects the
\* first record of the remaining list (unset when none remains) and sets the
\* Connection State to idle.
C2_RemoveSelected ==
    [][Called("removeServer") /\ last'.arg = selectedServerId =>
          /\ \E k \in DOMAIN serverList :
                /\ serverList[k].id = selectedServerId
                /\ serverList' = Without(serverList, k)
          /\ selectedServerId' = IF serverList' = <<>> THEN Undefined
                                 ELSE serverList'[1].id
          /\ connectionStatus' = Idle]_vars

\* the removed record was the last of three and the selection moved to the first,
\* while the probe that had been testing it is still in flight
C2_Witness ==
    /\ last.op = "removeServer"
    /\ last.arg \notin Ids(serverList)
    /\ Len(serverList) = 2
    /\ last.arg > serverList[2].id
    /\ selectedServerId = serverList[1].id
    /\ connectionStatus = Idle
    /\ inflight # <<>>

\* C3: addServer appends exactly one record at the end and returns its id; the
\* record becomes selected if the list was empty, else the selection is unchanged.
C3_AddServer ==
    [][Called("addServer") => \A in \in ServerInputs : addServer(in) =>
          /\ last'.ret.type = "id"
          /\ last'.ret.value \notin Ids(serverList)
          /\ serverList' = serverList \o
                <<[id |-> last'.ret.value, name |-> in.name, url |-> in.url,
                   password |-> in.password]>>
          /\ selectedServerId' = IF serverList = <<>> THEN last'.ret.value
                                 ELSE selectedServerId]_vars

\* a record was added to a non-empty list and the selection stayed where it was
C3_Witness ==
    /\ last.op = "addServer"
    /\ Len(serverList) >= 2
    /\ serverList[Len(serverList)].id = last.ret.value
    /\ selectedServerId \in Ids(serverList) \ {last.ret.value}

\* C4: selectServer(id) with an id in the list selects it and sets the Connection
\* State to idle; with an id not in the list it changes nothing.
C4_SelectServer ==
    [][Called("selectServer") =>
          IF last'.arg \in Ids(serverList)
          THEN /\ selectedServerId' = last'.arg
               /\ connectionStatus' = Idle
               /\ serverList' = serverList
          ELSE UNCHANGED <<serverList, selectedServerId, connectionStatus>>]_vars

\* an id that is not in the list was passed while the connection was unhealthy
C4_Witness ==
    /\ last.op = "selectServer"
    /\ last.arg \notin Ids(serverList)
    /\ selectedServerId # Undefined
    /\ connectionStatus.status = "error"

\* C5: updateServer(id, ...) sets the Connection State to idle if id is the
\* selected record and leaves it unchanged otherwise.
C5_UpdateResetsStatus ==
    [][Called("updateServer") =>
          connectionStatus' = IF last'.arg = selectedServerId THEN Idle
                              ELSE connectionStatus]_vars

\* the selected record was updated while its probe was in flight
C5_Witness ==
    /\ last.op = "updateServer"
    /\ last.arg = selectedServerId
    /\ connectionStatus = Idle
    /\ inflight # <<>>

\* C6: updateServer(id, name, url, secret) for an id in the list replaces exactly
\* the name, url and secret of that record; ids, the other records, the length,
\* the order and the selection are unchanged.
C6_UpdateServer ==
    [][Called("updateServer") /\ last'.arg \in Ids(serverList) =>
          \A in \in ServerInputs : updateServer(last'.arg, in) =>
             /\ Len(serverList') = Len(serverList)
             /\ \A i \in DOMAIN serverList :
                   serverList'[i] =
                      IF serverList[i].id = last'.arg
                      THEN [id |-> last'.arg, name |-> in.name, url |-> in.url,
                            password |-> in.password]
                      ELSE serverList[i]
             /\ selectedServerId' = selectedServerId]_vars

\* the second of three records was updated and now differs from both neighbours
C6_Witness ==
    /\ last.op = "updateServer"
    /\ Len(serverList) = 3
    /\ last.arg = serverList[2].id
    /\ serverList[2].password # serverList[1].password
    /\ serverList[2].password # serverList[3].password
    /\ selectedServerId = serverList[3].id

\* C7: updateServer with an id that is not in the list leaves the list, the
\* selection and the Connection State as they were.
C7_UpdateAbsent ==
    [][Called("updateServer") /\ last'.arg \notin Ids(serverList) =>
          UNCHANGED <<serverList, selectedServerId, connectionStatus>>]_vars

\* an absent id was updated while a record was selected and healthy
C7_Witness ==
    /\ last.op = "updateServer"
    /\ last.arg \notin Ids(serverList)
    /\ selectedServerId # Undefined
    /\ connectionStatus = Ready

\* a record is selected (multi-profile); endpoint and secret are set (single-connection)
HasConnection ==
    IF IsMulti THEN selectedServerId # Undefined
    ELSE server # "" /\ adminPassword # ""

\* the calls, other than testConnection, that write the Connection State
StatusWriters ==
    {"updateServer", "removeServer", "selectServer", "updateConnection",
     "clearConnection", "createHasuraStore"}

\* C8: testConnection() with an active connection enters testing as it issues the
\* SELECT 1 probe and stays there until the probe completes, no other operation
\* intervening; it then is healthy and returns true if the probe succeeded, or
\* unhealthy with exactly the probe's fault and returns false.
C8_Probe ==
    [][/\ Called("testConnection") /\ HasConnection =>
             /\ StatusOf' = Loading
             /\ last'.ret = Pending
             /\ Len(inflight') = Len(inflight) + 1
             /\ SubSeq(inflight', 1, Len(inflight)) = inflight
             /\ inflight'[Len(inflight')].caller = "testConnection"
             /\ inflight'[Len(inflight')].request.body.args.sql = "SELECT 1"
       /\ StatusOf = Loading /\ StatusOf' # Loading =>
             Settled("testConnection") \/ last'.op \in StatusWriters
       /\ Settled("testConnection") =>
             /\ last'.awaited.type \in {"ok", "error"}
             /\ StatusOf' = IF last'.awaited.type = "error"
                            THEN ErrorStatus(last'.awaited) ELSE Ready
             /\ last'.ret = Bool(last'.awaited.type = "ok")]_vars

\* the probe met HTTP 403 with error "invalid secret": unhealthy with that fault
C8_Witness ==
    /\ last.op = "testConnection"
    /\ last.ret = Bool(FALSE)
    /\ last.awaited = Err("Error", "invalid secret")
    /\ StatusOf = ErrorStatus(last.awaited)
    /\ inflight = <<>>

\* C9: testConnection() with no record selected (multi-profile), or with an empty
\* endpoint or secret (single-connection), returns false, issues no request and
\* leaves the Connection State and everything else unchanged.
C9_ProbeWithoutConnection ==
    [][Called("testConnection") /\ ~HasConnection =>
          /\ last'.ret = Bool(FALSE)
          /\ UNCHANGED <<inflight, connectionStatus, connection, serverList,
                         selectedServerId, server, adminPassword, storage>>]_vars

\* the single-connection store had an endpoint and no secret
C9_Witness ==
    /\ IsSingle
    /\ last = Call("testConnection", Undefined, Bool(FALSE))
    /\ server # ""
    /\ adminPassword = ""
    /\ connection # Loading

\* C10: multi-profile executeGraphQL and executeSQL with no record selected return
\* a failure with message "No server selected", issue no request and change no
\* store state.
C10_QueryWithoutSelection ==
    [][/\ IsMulti
       /\ selectedServerId = Undefined
       /\ Called("executeSQL") \/ Called("executeGraphQL")
       => /\ last'.ret.type = "error"
          /\ last'.ret.message = "No server selected"
          /\ UNCHANGED <<inflight, serverList, selectedServerId, connectionStatus,
                         nextId, storage>>]_vars

\* the only record was removed and a GraphQL query was then attempted
C10_Witness ==
    /\ IsMulti
    /\ last.op = "executeGraphQL"
    /\ last.ret = Err("Error", "No server selected")
    /\ selectedServerId = Undefined
    /\ nextId > 1
    /\ inflight = <<>>

\* the request of executeSQL that settles in this step met resp
SettlesSQL(resp) ==
    \E i \in DOMAIN inflight :
       IF IsMulti THEN storeExecuteSQLSettles(i, resp)
       ELSE single_executeSQLSettles(i, resp)

\* the request of executeGraphQL that settles in this step met resp
SettlesGraphQL(resp) ==
    \E i \in DOMAIN inflight :
       IF IsMulti THEN storeExecuteGraphQLSettles(i, resp)
       ELSE single_executeGraphQLSettles(i, resp)

MatchesResult(body) ==
    /\ body.json
    /\ {"result_type", "result"} \subseteq DOMAIN body.value
    /\ body.value.result_type = "TuplesOk"

\* the body is JSON and has the shape {error, path, code}
MatchesError(body) ==
    /\ body.json
    /\ {"error", "path", "code"} \subseteq DOMAIN body.value

\* the parts of C12 that do not depend on the message of a gateway error
C12_Frame(resp) ==
    /\ last'.ret.type = "ok" <=>
          resp.kind = "response" /\ resp.ok /\ MatchesResult(resp.body)
    /\ resp.kind = "response" /\ ~resp.ok => last'.ret.type = "error"
    /\ resp.kind = "response" /\ ~resp.ok /\ resp.body.json /\ ~MatchesError(resp.body) =>
          last'.ret = Err("TypeError", parseHasuraQueryError(resp.body.value).summary)
    /\ resp.kind = "response" /\ resp.ok /\ resp.body.json /\ ~MatchesResult(resp.body) =>
          last'.ret = Err("TypeError", parseHasuraQueryResult(resp.body.value).summary)

HasGatewayErrors(body) ==
    body.json /\ "errors" \in DOMAIN body.value /\ body.value.errors # <<>>

\* the parts of C13 that do not depend on the message of the first error
C13_Frame(resp) ==
    /\ resp.kind = "response" /\ HasGatewayErrors(resp.body) => last'.ret.type = "error"
    /\ resp.kind = "response" /\ resp.body.json /\ ~HasGatewayErrors(resp.body) =>
          last'.ret = Ok(resp.body.value)
    /\ resp.kind = "response" /\ HasGatewayErrors(resp.body)
       /\ "message" \notin DOMAIN resp.body.value.errors[1] =>
          last'.ret.message = "GraphQL query failed"

\* C13 as stated: the failure's message is the first error's message whenever
\* that error has one.
C13_AsStated ==
    [][Settled("executeGraphQL") => \A resp \in GraphQLResponses : SettlesGraphQL(resp) =>
          /\ C13_Frame(resp)
          /\ resp.kind = "response" /\ HasGatewayErrors(resp.body)
             /\ "message" \in DOMAIN resp.body.value.errors[1] =>
                last'.ret.message = resp.body.value.errors[1].message]_vars

\* C13: with a non-empty errors array executeGraphQL fails with the first error's
\* message, or with "GraphQL query failed" when that message is missing or the
\* empty string; with no errors or an empty errors array it succeeds, whatever
\* the HTTP status.
C13_ExecuteGraphQL ==
    [][Settled("executeGraphQL") => \A resp \in GraphQLResponses : SettlesGraphQL(resp) =>
          /\ C13_Frame(resp)
          /\ resp.kind = "response" /\ HasGatewayErrors(resp.body)
             /\ "message" \in DOMAIN resp.body.value.errors[1] =>
                last'.ret = Err("Error",
                                IF resp.body.value.errors[1].message # ""
                                THEN resp.body.value.errors[1].message
                                ELSE "GraphQL query failed")]_vars

\* the gateway reported "Field does not exist" and the failure carries it
C13_Witness ==
    /\ last.op = "executeGraphQL"
    /\ last.ret = Err("Error", "Field does not exist")
    /\ inflight = <<>>

\* C14: a successful executeSQL returns the gateway's rows as they came: as many
\* rows, in the same order, with the same cells, the header row first.
C14_RowsVerbatim ==
    [][Settled("executeSQL") /\ last'.ret.type = "ok" =>
          \A resp \in SqlResponses : SettlesSQL(resp) =>
             /\ Len(last'.ret.value.result) = Len(resp.body.value.result)
             /\ \A r \in DOMAIN resp.body.value.result :
                   last'.ret.value.result[r] = resp.body.value.result[r]
             /\ last'.ret.value.result_type = "TuplesOk"]_vars

\* the two rows of the gateway came back with the header row first
C14_Witness ==
    /\ last.op = "executeSQL"
    /\ last.ret.type = "ok"
    /\ last.ret.value.result = <<<<"id", "name">>, <<"1", "A">>>>
    /\ inflight = <<>>

\* the call of executeSQL(sql, options) on the store that was constructed
CallsSQL(sql, options) ==
    IF IsMulti THEN storeExecuteSQL(sql, options) ELSE single_executeSQL(sql, options)

\* the request issued in this step
Issued == inflight'[Len(inflight')].request

\* C15: the read_only flag of every SQL request is the negation of allowMutations,
\* true when the options are omitted, and true in the SELECT 1 probe of
\* testConnection.
C15_ReadOnly ==
    [][/\ Called("executeSQL") /\ Len(inflight') > Len(inflight) =>
             \A sql \in SqlTexts, options \in SqlOptions : CallsSQL(sql, options) =>
                /\ Issued.body.args.sql = sql
                /\ Issued.body.args.read_only =
                      IF options = [allowMutations |-> TRUE] THEN FALSE ELSE TRUE
       /\ Called("testConnection") /\ Len(inflight') > Len(inflight) =>
             /\ Issued.body.args.sql = "SELECT 1"
             /\ Issued.body.args.read_only = TRUE]_vars

\* a request that may mutate is in flight: the caller had set allowMutations
C15_Witness ==
    /\ last.op = "executeSQL"
    /\ inflight # <<>>
    /\ inflight[1].caller = "executeSQL"
    /\ inflight[1].request.body.args.read_only = FALSE

\* the asynchronous operations of a store
AsyncOps == {"testConnection", "executeSQL", "executeGraphQL"}

\* C16: executeGraphQL and executeSQL leave the Connection State as it is when
\* they are called and when they complete, with success or with failure; a store
\* that has a connection issues their request whatever the Connection State;
\* an asynchronous operation that writes the Connection State is testConnection.
C16_QueriesKeepStatus ==
    [][/\ last'.op \in {"executeSQL", "executeGraphQL"} => StatusOf' = StatusOf
       /\ (Called("executeSQL") \/ Called("executeGraphQL")) /\ HasConnection =>
             /\ last'.ret = Pending
             /\ Len(inflight') = Len(inflight) + 1
       /\ last'.op \in AsyncOps /\ StatusOf' # StatusOf =>
             last'.op = "testConnection"]_vars

\* a query failed while the probe was still in flight, and the state is testing
C16_Witness ==
    /\ last.op = "executeGraphQL"
    /\ last.ret = Err("Error", "Field does not exist")
    /\ StatusOf = Loading
    /\ Len(inflight) = 1
    /\ inflight[1].caller = "testConnection"

\* the calls that change the list or the selection
ListWriters == {"addServer", "updateServer", "removeServer", "selectServer"}

\* C17: after addServer, updateServer, removeServer or selectServer and the save
\* effect that follows, the value stored at the storage key decodes to the
\* current list, in its order, and the current selected id.
C17_SnapshotIsCurrent ==
    [][last'.op \in ListWriters =>
          /\ storage' # NoItem
          /\ parseHasuraserverListJSON(storage').ok
          /\ parseHasuraserverListJSON(storage').data.serverList = serverList'
          /\ parseHasuraserverListJSON(storage').data.selectedServerId =
                selectedServerId']_vars

\* the second of two records was selected and the snapshot names it
C17_Witness ==
    /\ last.op = "selectServer"
    /\ Len(serverList) = 2
    /\ selectedServerId = serverList[2].id
    /\ storage = Json([serverList |-> serverList, selectedServerId |-> serverList[2].id])

\* C18: a store constructed over the storage that holds the snapshot of a
\* reachable state has an equal list (ids, fields, order) and the same selected
\* id; an unset selection stays unset.
C18_RoundTrip ==
    [][last'.op = "createHasuraStore" =>
          /\ serverList' = serverList
          /\ selectedServerId' = selectedServerId]_vars

\* a store hydrated with three records, the last of them selected
C18_Witness ==
    /\ last.op = "createHasuraStore"
    /\ Len(serverList) = 3
    /\ selectedServerId = serverList[3].id
    /\ serverList[1] # serverList[2]

\* C19: constructing a store, over a snapshot or over nothing, issues no request
\* and leaves the Connection State idle; the snapshot holds no health, so a store
\* hydrated from a snapshot written while healthy or unhealthy starts idle.
C19_ConstructionIsQuiet ==
    [][last'.op = "createHasuraStore" =>
          /\ StatusOf' = Idle
          /\ inflight' = <<>>
          /\ storage # NoItem /\ storage.json =>
                DOMAIN storage.value \subseteq
                   {"serverList", "selectedServerId", "server", "adminPassword"}]_vars

\* a store was hydrated with a connection from the snapshot of an unhealthy store
C19_Witness ==
    /\ last.op = "createHasuraStore"
    /\ "before" \in DOMAIN last
    /\ last.before.status = "error"
    /\ HasConnection
    /\ StatusOf = Idle
    /\ inflight = <<>>

\* the members of a stored value, or the empty value for a member it lacks
StoredMember(item, key, empty) ==
    IF key \in DOMAIN item.value THEN item.value[key] ELSE empty

\* C20: when reading the storage key throws or the stored value does not decode,
\* construction completes and the store starts with an empty list (an empty url
\* and secret), no selection and the idle state; a construction hydrates both
\* cells from the stored value or neither.
C20_HydrationFaults ==
    [][last'.op = "createHasuraStore" =>
          /\ last'.ret = Void
          /\ StatusOf' = Idle
          /\ IsMulti /\ storage \in CorruptServerLists =>
                serverList' = <<>> /\ selectedServerId' = Undefined
          /\ IsSingle /\ storage \in CorruptConnections =>
                server' = "" /\ adminPassword' = ""
          /\ IsMulti =>
                \/ serverList' = <<>> /\ selectedServerId' = Undefined
                \/ /\ storage \notin {NoItem, Unreadable} /\ storage.json
                   /\ serverList' = StoredMember(storage, "serverList", <<>>)
                   /\ selectedServerId' =
                         StoredMember(storage, "selectedServerId", Undefined)
          /\ IsSingle =>
                \/ server' = "" /\ adminPassword' = ""
                \/ /\ storage \notin {NoItem, Unreadable} /\ storage.json
                   /\ server' = StoredMember(storage, "server", "")
                   /\ adminPassword' = StoredMember(storage, "adminPassword", "")]_vars

\* a store constructed over a stored value with a good list and a selection that
\* is not a string started empty, after a healthy store had used the storage
C20_Witness ==
    /\ last.op = "createHasuraStore"
    /\ "read" \in DOMAIN last
    /\ last.read = Json([serverList |-> <<ForeignServer>>, selectedServerId |-> NotAString])
    /\ last.before = Ready
    /\ serverList = <<>>
    /\ selectedServerId = Undefined
    /\ connectionStatus = Idle

\* C21: single-connection updateConnection(url, secret) with both values equal to
\* the current ones changes nothing, the Connection State included; if either
\* value differs, both are stored and the Connection State becomes idle.
C21_UpdateConnection ==
    [][IsSingle /\ Called("updateConnection") =>
          \A in \in ConnectionInputs : updateConnection(in) =>
             IF in.server = server /\ in.adminPassword = adminPassword
             THEN UNCHANGED <<server, adminPassword, connection, storage, inflight>>
             ELSE /\ server' = in.server
                  /\ adminPassword' = in.adminPassword
                  /\ connection' = Idle]_vars

\* the values of a healthy connection were passed again and it stayed healthy
C21_Witness ==
    /\ IsSingle
    /\ last.op = "updateConnection"
    /\ connection = Ready
    /\ server # ""
    /\ adminPassword # ""

\* what a caller of the single-connection store can observe, in either revision
SingleObservable ==
    <<server, adminPassword, connection, isConnected, isLoading, error, storage>>

\* C22: single-connection clearConnection() is idempotent: a second call right
\* after the first leaves endpoint, secret, Connection State and persisted value
\* as the first call left them.
C22_ClearIsIdempotent ==
    [][last'.op = "clearConnection" /\ last'.again => UNCHANGED SingleObservable]_vars

\* clearConnection was called twice in a row on a store that had been configured
\* and probed
C22_Witness ==
    /\ last.op = "clearConnection"
    /\ last.again
    /\ server = ""
    /\ adminPassword = ""
    /\ inflight # <<>>

\* C23: single-connection store with a storage: after clearConnection() and the
\* save effect, the storage key is absent; it does not hold a snapshot with an
\* empty endpoint and secret.
C23_ClearRemovesKey ==
    [][last'.op = "clearConnection" => storage' = NoItem]_vars

\* after clearConnection the key holds the snapshot of an empty connection
C23_Witness ==
    /\ IsSingle
    /\ last.op = "clearConnection"
    /\ storage = Json([server |-> "", adminPassword |-> ""])
    /\ server = ""
    /\ adminPassword = ""

\* the url and the secret of the connection the store would use now
EndpointUrl == IF IsMulti THEN getSelectedServer.url ELSE server
Secret == IF IsMulti THEN getSelectedServer.password ELSE adminPassword

\* C24: every SQL request of executeSQL or of the testConnection probe, in every
\* store, is a POST to {endpointUrl}/v2/query with the connection's secret header
\* and the body {type: "run_sql", args: {source: "default", sql, cascade: false,
\* read_only}}.
C24_SqlRequestShape ==
    [][last'.op \in {"executeSQL", "testConnection"} /\ Len(inflight') > Len(inflight) =>
          /\ Issued.method = "POST"
          /\ Issued.url = EndpointUrl \o "/v2/query"
          /\ Issued.secret = Secret
          /\ DOMAIN Issued.body = {"type", "args"}
          /\ Issued.body.type = "run_sql"
          /\ DOMAIN Issued.body.args = {"source", "sql", "cascade", "read_only"}
          /\ Issued.body.args.source = "default"
          /\ Issued.body.args.cascade = FALSE
          /\ Issued.body.args.read_only \in BOOLEAN]_vars

\* a request of the single-connection store is in flight whose body names the
\* command under the key status
C24_Witness ==
    /\ IsSingle
    /\ inflight # <<>>
    /\ inflight[1].caller = "executeSQL"
    /\ DOMAIN inflight[1].request.body = {"status", "args"}
    /\ inflight[1].request.url = server \o "/v2/query"

\* the connection a probe would be issued against now: the selected record with
\* its url and secret, or nothing
ConnectionOf ==
    IF ~HasConnection THEN <<>>
    ELSE <<IF IsMulti THEN selectedServerId ELSE Undefined, EndpointUrl, Secret>>

\* health: the Connection State is healthy or unhealthy
HasHealth == StatusOf.status \in {"ready", "error"}

\* C25: health is never stale: a probe completion that writes healthy or unhealthy
\* belongs to a probe issued against the record selected now, with its url and
\* secret of now; and while health stays, the selected record, its url and its
\* secret stay.
C25_NoStaleHealth ==
    [][/\ Settled("testConnection") /\ HasHealth' =>
             \A i \in DOMAIN inflight :
                inflight[i].caller = "testConnection" /\ inflight' = RemoveAt(inflight, i) =>
                   /\ HasConnection'
                   /\ inflight[i].request.url = EndpointUrl' \o "/v2/query"
                   /\ inflight[i].request.secret = Secret'
       /\ ~Settled("testConnection") /\ HasHealth /\ HasHealth' =>
             ConnectionOf' = ConnectionOf]_vars

\* the store is healthy although no record is selected: the probed record was
\* removed while its probe was in flight
C25_Witness ==
    /\ IsMulti
    /\ connectionStatus = Ready
    /\ selectedServerId = Undefined
    /\ serverList = <<>>
    /\ last.op = "testConnection"

\* C26: of two testConnection calls that overlap, with nothing else in between,
\* the one whose probe completes later decides the Connection State, whichever
\* was started first.
C26_LastCompletionWins ==
    [][Settled("testConnection") /\ "after" \in DOMAIN last =>
          /\ StatusOf' = IF last'.awaited.type = "error"
                         THEN ErrorStatus(last'.awaited) ELSE Ready
          /\ last'.after = last.ret]_vars

\* two probes overlapped: one completed healthy, then the other failed, and the
\* store is unhealthy with the later fault
C26_Witness ==
    /\ last.op = "testConnection"
    /\ "after" \in DOMAIN last
    /\ last.after = Bool(TRUE)
    /\ last.ret = Bool(FALSE)
    /\ StatusOf = ErrorStatus(last.awaited)
    /\ inflight = <<>>

\* C27: in the multi-profile store, whenever the Connection State is testing
\* at least one testConnection probe is in flight.
C27_TestingHasProbe ==
    IsMulti /\ connectionStatus = Loading =>
        \E i \in DOMAIN inflight : inflight[i].caller = "testConnection"

\* a probe is in flight and the store is testing, after a record other than
\* the selected one was edited
C27_Witness ==
    /\ IsMulti /\ connectionStatus = Loading
    /\ last.op = "updateServer"
    /\ \E i \in DOMAIN inflight : inflight[i].caller = "testConnection"

\* C28: provided every request completes, every testConnection call that put
\* the store into testing returns (the probe at any position of the in-flight
\* list cannot stay there for ever), and once nothing but completions happens
\* the Connection State becomes idle, healthy or unhealthy and stays so.
C28_TestingIsNotTerminal ==
    /\ \A i \in 1..LiveMaxInFlight :
          <>[][~ \E j \in 1..i, resp \in ProbeResponses : testConnectionSettles(j, resp)]_vars
             => <>[](Len(inflight) < i)
    /\ <>[][\E i \in DOMAIN inflight, resp \in ProbeResponses : testConnectionSettles(i, resp)]_vars
          => <>[](inflight = <<>> /\ connectionStatus.status \in {"idle", "ready", "error"})

\* two overlapping probes have both returned, the later one healthy, and the
\* store is at rest in the healthy state
C28_Witness ==
    /\ IsMulti /\ inflight = <<>>
    /\ last.op = "testConnection" /\ "after" \in DOMAIN last
    /\ last.after = Bool(FALSE) /\ last.ret = Bool(TRUE)
    /\ connectionStatus = Ready

\* C29: in the multi-profile store every request carries the endpoint url and
\* the secret of the record that was selected when the operation was invoked,
\* and no later step changes a request that is already in flight.
C29_CredentialBinding ==
    [][/\ \A op \in AsyncOps :
             Called(op) /\ last'.ret = Pending =>
                /\ getSelectedServer # NoServer
                /\ Len(inflight') = Len(inflight) + 1
                /\ Issued.url = getSelectedServer.url \o
                      (IF op = "executeGraphQL" THEN "/v1/graphql" ELSE "/v2/query")
                /\ Issued.secret = getSelectedServer.password
       /\ \A i \in DOMAIN inflight :
             \/ i \in DOMAIN inflight' /\ inflight'[i] = inflight[i]
             \/ Len(inflight') < Len(inflight)
       /\ Len(inflight') < Len(inflight) =>
             \E i \in DOMAIN inflight : inflight' = RemoveAt(inflight, i)]_vars

\* a request is in flight with the secret of the record it was issued for, and
\* the selection has since moved to a record with another secret
C29_Witness ==
    /\ IsMulti /\ last.op = "selectServer"
    /\ getSelectedServer # NoServer
    /\ \E i \in DOMAIN inflight :
          /\ inflight[i].request.secret # getSelectedServer.password
          /\ \E j \in DOMAIN serverList :
                /\ serverList[j].password = inflight[i].request.secret
                /\ serverList[j].id # selectedServerId

\* C30: no operation retries. A call of testConnection, executeSQL or
\* executeGraphQL sends exactly one request when it is invoked (none when there
\* is no connection to use), and its completion, success or failure, only takes
\* that one request out of flight and sends nothing more.
C30_NoRetries ==
    [][\A op \in AsyncOps :
          last'.op = op /\ last' # last =>
             IF last'.ret = Pending
             THEN /\ Len(inflight') = Len(inflight) + 1
                  /\ inflight' = Append(inflight, inflight'[Len(inflight')])
                  /\ inflight'[Len(inflight')].caller = op
             ELSE \/ inflight' = inflight /\ ~HasConnection
                  \/ \E i \in DOMAIN inflight :
                        /\ inflight[i].caller = op
                        /\ inflight' = RemoveAt(inflight, i)]_vars

\* an executeSQL call of the multi-profile store has failed on its one request
\* and returned the fault, and nothing is in flight
C30_Witness ==
    /\ IsMulti /\ getSelectedServer # NoServer
    /\ last.op = "executeSQL" /\ IsError(last.ret)
    /\ inflight = <<>>

\* C31: in the multi-profile store started empty and driven by addServer,
\* updateServer, removeServer and selectServer, the selection is unset exactly
\* when the list is empty: a non-empty list always has a selected record.
C31_SelectedIffNonEmpty ==
    IsMulti => (selectedServerId = Undefined <=> serverList = <<>>)

\* the selected record of several was removed and the selection moved on to a
\* record that is still in the list
C31_Witness ==
    /\ IsMulti /\ last.op = "removeServer"
    /\ Len(serverList) >= 2
    /\ last.arg \notin Ids(serverList)
    /\ last.arg < serverList[1].id
    /\ selectedServerId = serverList[1].id

\* C32: removeServer(id) with an id other than the selected one (a record that
\* is not selected, or an id that is not in the list) leaves the selection and
\* the Connection State unchanged, and removes at most the record with that id,
\* the other records staying in their order.
C32_RemoveOther ==
    [][Called("removeServer") /\ last'.arg # selectedServerId =>
          /\ selectedServerId' = selectedServerId
          /\ connectionStatus' = connectionStatus
          /\ IF last'.arg \in Ids(serverList)
             THEN \E k \in DOMAIN serverList :
                     /\ serverList[k].id = last'.arg
                     /\ serverList' = Without(serverList, k)
             ELSE serverList' = serverList]_vars

\* a record other than the selected one was removed from three while the
\* selected one was healthy, and it still is
C32_Witness ==
    /\ IsMulti /\ last.op = "removeServer"
    /\ Len(serverList) = 2 /\ nextId = 4
    /\ last.arg \in 1..3 /\ last.arg \notin Ids(serverList)
    /\ selectedServerId = serverList[2].id
    /\ connectionStatus = Ready

\* C33: selectServer(id) with the id of the record that is already selected
\* leaves the Connection State unchanged; only a change of the selection resets
\* it to idle.
C33_ReselectKeepsStatus ==
    [][/\ Called("selectServer")
       /\ selectedServerId # Undefined
       /\ last'.arg = selectedServerId
       => connectionStatus' = connectionStatus]_vars

\* the only record of the list, which is the selected one, was selected again
C33_Witness ==
    /\ IsMulti /\ last.op = "selectServer"
    /\ Len(serverList) = 1
    /\ last.arg = serverList[1].id
    /\ selectedServerId = last.arg
    /\ connectionStatus = Idle

\* C34: the debounced tester has at most one probe timer pending at any time.
\* An edit that leaves a url and a secret in the form is saved to the store at
\* once, cancels the timer scheduled before and schedules one; the timer that
\* fires is the one of the most recent edit, so a burst of edits starts one
\* probe, after the last of them.
C34_Debounce ==
    /\ [](Cardinality(timers) <= 1)
    /\ [][/\ (/\ last'.op = "handleInputChange"
              /\ editingServer'.url # "" /\ editingServer'.password # "")
             => /\ \E k \in DOMAIN serverList' :
                      /\ serverList'[k].id = ui_selectedServerId'
                      /\ serverList'[k].name = editingServer'.name
                      /\ serverList'[k].url = editingServer'.url
                      /\ serverList'[k].password = editingServer'.password
                /\ timers' = {[handle |-> debounceTimeout',
                               edited |-> ui_selectedServerId']}
                /\ timers' \cap timers = {}
          /\ (last'.op = "debounceTimeout" /\ timers' # timers)
             => /\ \E u \in timers : u.handle = debounceTimeout /\ timers = {u}
                /\ timers' = {}]_vars

\* an edit arrived while the timer of the edit before was pending: that timer
\* was cancelled and one timer is pending
C34_Witness ==
    /\ last.op = "handleInputChange"
    /\ last.cancelled /\ last.scheduled
    /\ Cardinality(timers) = 1
    /\ mounted

\* C35: teardown of the component cancels the pending timer and leaves a probe
\* in flight alone; after teardown no timer fires and no testConnection call
\* is started, while a probe that was in flight still completes.
C35_Teardown ==
    /\ [](~mounted => timers = {})
    /\ [][/\ last'.op = "onDestroy" /\ mounted
             => inflight' = inflight /\ connectionStatus' = connectionStatus
          /\ ~mounted
             => /\ Len(inflight') <= Len(inflight)
                /\ mounted' = mounted
                /\ last'.op = "debounceTimeout" /\ "after" \in DOMAIN last']_vars

\* the component was destroyed with a probe in flight, and the probe has
\* completed since and reported a healthy connection
C35_Witness ==
    /\ ~mounted
    /\ last.op = "debounceTimeout" /\ "after" \in DOMAIN last
    /\ last.ret = Bool(TRUE)
    /\ connectionStatus = Ready
    /\ inflight = <<>>

\* C36: when the timer of an edit fires, the record selected in the store, which
\* is the one testConnection probes, is the record the edit was saved to.
C36_ProbesEditedRecord ==
    [][last'.op = "debounceTimeout" /\ timers' # timers =>
          \E u \in timers : u \notin timers' /\ u.edited = selectedServerId]_vars

\* the timer of an edit fired and the probe went out for another record
C36_Witness ==
    /\ last.op = "debounceTimeout" /\ "probed" \in DOMAIN last
    /\ last.ret = Pending
    /\ last.probed # last.arg
    /\ last.arg \in Ids(serverList)

\* C37: in the single-connection store with error and isLoading fields, when
\* two queries overlap and both have completed, error reflects the call that
\* completed later (its fault message if it failed, unset if it succeeded) and
\* isLoading is false.
C37_LaterCompletionDecides ==
    [][/\ IsLegacy
       /\ last.op \in {"executeSQL", "executeGraphQL"} /\ last.ret # Pending
       /\ last'.op \in {"executeSQL", "executeGraphQL"}
       /\ Len(inflight) = 1 /\ inflight' = <<>>
       => /\ error' = IF IsError(last'.ret)
                      THEN ErrorMessage(last'.ret.message)
                      ELSE NoError
          /\ isLoading' = FALSE]_vars

\* two overlapping queries have completed, the later one with a result, and
\* the store is not loading
C37_Witness ==
    /\ IsLegacy /\ inflight = <<>>
    /\ last.op = "executeGraphQL" /\ ~IsError(last.ret) /\ last.ret # Pending
    /\ error # NoError
    /\ isLoading = FALSE

\* C38: in the single-connection store, executeGraphQL and executeSQL called
\* while no connection is configured (the endpoint or the secret is empty)
\* return a failure without issuing a network request.
C38_QueryWithoutConnection ==
    [][/\ ~IsMulti
       /\ \E op \in {"executeSQL", "executeGraphQL"} : Called(op)
       /\ server = "" \/ adminPassword = ""
       => /\ inflight' = inflight
          /\ IsError(last'.ret)]_vars

\* executeSQL was called on a store without an endpoint and its request is in
\* flight, addressed to the bare path
C38_Witness ==
    /\ ~IsMulti /\ server = "" /\ adminPassword = ""
    /\ last.op = "executeSQL" /\ last.ret = Pending
    /\ Len(inflight) = 1
    /\ inflight[1].request.url = "/v2/query"
    /\ inflight[1].request.secret = ""

\* C39: executeGraphQL returns a success only for a response envelope with a
\* data field; an envelope with neither data nor a non-empty errors array is
\* reported as a failure.
C39_SuccessHasData ==
    [][\E op \in {"executeGraphQL"} :
          /\ Settled(op)
          /\ ~IsError(last'.ret)
          => "data" \in DOMAIN last'.ret.value]_vars

\* the gateway answered with an object that has neither data nor errors, and
\* executeGraphQL of the multi-profile store returned it as its result
C39_Witness ==
    /\ IsMulti /\ last.op = "executeGraphQL"
    /\ last.ret = Ok(OtherBody)
    /\ inflight = <<>>

\* C40: when setItem throws while the list is saved, addServer, updateServer,
\* removeServer and selectServer still complete normally and the list, the
\* selection and the Connection State get the values the operation gives them,
\* and so for every later operation.
C40_SaveFaultsSwallowed ==
    [][storage = QuotaExceeded =>
          /\ storage' = QuotaExceeded
          /\ Called("addServer") =>
                /\ Len(serverList') = Len(serverList) + 1
                /\ SubSeq(serverList', 1, Len(serverList)) = serverList
                /\ last'.ret = IdValue(serverList'[Len(serverList')].id)
                /\ selectedServerId' = IF serverList = <<>>
                                       THEN serverList'[1].id
                                       ELSE selectedServerId
                /\ connectionStatus' = connectionStatus
          /\ Called("updateServer") =>
                /\ \E in \in ServerInputs :
                      serverList' = mapUpdate(serverList, last'.arg, in)
                /\ selectedServerId' = selectedServerId
                /\ connectionStatus' = IF last'.arg = selectedServerId
                                       THEN Idle ELSE connectionStatus
                /\ last'.ret = Void
          /\ Called("removeServer") =>
                /\ last'.arg \notin Ids(serverList')
                /\ Ids(serverList') = Ids(serverList) \ {last'.arg}
                /\ selectedServerId' =
                      IF last'.arg = selectedServerId
                      THEN IF serverList' = <<>> THEN Undefined ELSE serverList'[1].id
                      ELSE selectedServerId
                /\ last'.ret = Void
          /\ Called("selectServer") /\ last'.arg \in Ids(serverList) =>
                /\ selectedServerId' = last'.arg
                /\ connectionStatus' = Idle
                /\ serverList' = serverList
                /\ last'.ret = Void]_vars

\* after setItem began to throw two records were added and the second one
\* selected: the operations went on working on the list in memory
C40_Witness ==
    /\ IsMulti /\ storage = QuotaExceeded
    /\ last.op = "selectServer"
    /\ Len(serverList) = 2
    /\ selectedServerId = serverList[2].id
    /\ last.arg = selectedServerId
    /\ connectionStatus = Idle

====
